---- MODULE Spec2Model ----
(***************************************************************************)
(* Gemini-Thread-to-Markdown: the popup's copy handler and the in-page     *)
(* artifact ("Canvas") extraction orchestrator of extension/popup.js.      *)
(*                                                                         *)
(* Spec       one call of extractMarkdownFromPage: its checks, the run of  *)
(*            extractAllCanvasContent against a modelled page UI, with a   *)
(*            millisecond clock advanced by the waitFor calls, and the     *)
(*            assembly of the document.                                    *)
(* SpecSlow   the same run against a UI that answers every wait at its     *)
(*            last poll, with a longer list, so the 45 s budget runs out.  *)
(* SpecPopup  the copy button's click handler: withTimeout racing the      *)
(*            injected script against the caller's timer, for several      *)
(*            clicks.                                                      *)
(* SpecWait   one call of waitFor, poll by poll.                           *)
(* SpecText   cleanupMarkdown, cleanupMarkdownInline and the fence makers  *)
(*            on every short string.                                       *)
(* SpecNodes  collectConversationNodes, the turn loop and the document of *)
(*            the turns on every small tree.                               *)
(* SpecList   convertList and convertListItem on every small tree of       *)
(*            nested lists.                                                *)
(* SpecCode   the pre branch of convertNode inside its containers, the    *)
(*            document around it, and getCanvasContent's section.          *)
(* SpecLink   the anchor branch of convertNode and toAbsoluteUrl.          *)
(* SpecMath   the math branch of convertNode and extractLatex.             *)
(* SpecDom    htmlToMarkdown: the clone, its cleanup, the conversion.      *)
(* SpecTitles listCreatedFileTitles on every short list of title texts.    *)
(* SpecMonaco readMonacoDomText, read by read.                             *)
(* SpecScroll the window scroll offset from captureUiState to the end of   *)
(*            restoreUiState.                                              *)
(* SpecLive   the run of Spec, or one waitFor call on its own, under weak  *)
(*            fairness.                                                    *)
(***************************************************************************)
EXTENDS Integers, Sequences, FiniteSets, TLC

(* ------------------------------------------------------------------ *)
(* Bounds of the model                                                 *)
(* ------------------------------------------------------------------ *)
\* largest number of artifact chips in the "created" section
MaxChips == 3
\* number of chips (all distinct) in the long list of the slow-UI runs (SpecSlow)
MaxSlowChips == 4
\* largest number of exceptions injected in one run
MaxThrows == 1
\* number of clicks on the copy button (SpecPopup)
MaxClicks == 2
\* largest number of automated UI clicks of one injected run (SpecPopup)
MaxPageClicks == 2
\* longest input string of the text helpers (SpecText)
MaxTextLen == 5
\* largest number of elements under the search root (SpecNodes)
MaxNodes == 4
\* largest number of elements of the converted lists (SpecList)
MaxListNodes == 5
\* longest href attribute, in pieces (SpecLink)
MaxHrefLen == 3
\* largest number of nodes under a content element (SpecDom)
MaxDomNodes == 3
\* largest number of title elements in the container (SpecTitles)
MaxTitleEls == 3
\* largest number of lines in the editor (SpecMonaco)
MaxEditorLines == 4
\* largest window scroll offset (SpecScroll)
MaxScroll == 2
\* largest number of artifact chips in the progress runs (SpecLive)
MaxLiveChips == 2

(* ------------------------------------------------------------------ *)
(* Program constants (milliseconds)                                    *)
(* ------------------------------------------------------------------ *)
OuterTimeoutCanvas == 60000
OuterTimeoutPlain == 20000
\* variant: the loop budget set to the caller's timeout
BudgetEqualsOuterTimeout == OuterTimeoutCanvas
MAX_TOTAL_MS == 45000
DefaultInterval == 100
SidebarOpenTimeout == 2500
ListWaitTimeout == 1500
ContentPollCap == 8000
ContentPollInterval == 200
OpenButtonTimeout == 3000
RestoreWaitTimeout == 1500
ImmersiveCloseTimeout == 2000

VARIABLES
  \* ---- the page UI (owned by the host application) ----
  layout,          \* "inline": the editor replaces the file list inside the side
                   \* panel; "overlay": the editor lives in the immersive panel
  chips,           \* titles of the sidebar-immersive-chip entries, in DOM order
  uiPace,          \* "prompt": the UI answers a click before the first poll of the
                   \* wait that follows; "slow": at the last poll before the timeout
  sidebarOpen,     \* the close-sidebar button (and the side panel) is present
  editor,          \* <<>>: no Monaco view-line; <<t>>: the editor shows artifact t
  pendingOpen,     \* <<t>>: a chip click whose reaction has not landed yet
  uiResponsive,    \* every automated click so far was answered within its wait
  chipMissed,      \* a chip looked up by title was not in the (virtualized) tree
  throws,          \* exceptions thrown so far by the page's DOM calls
  hostOk,          \* location.hostname ends with gemini.google.com
  turnsFound,      \* collectConversationNodes finds at least one turn
  includeCanvasArg, \* the argument of extractMarkdownFromPage
  \* ---- extractAllCanvasContent ----
  pc,              \* position of the run
  now,             \* Date.now(), ms since the popup armed its timer
  totalStart,      \* Date.now() read at line 282
  uiState,         \* the snapshot of captureUiState; <<>> before it is taken
  results,         \* fragments pushed so far
  processedTitles,
  titles,          \* the enumerated titles
  idx,             \* position of the for..of loop in titles
  everOpenedEditor,
  pollTimeout,     \* the timeout handed to the content poll about to start, else 0
  efvRet, efvResult, esoRet,   \* return addresses / value of the two helpers
  rSidePanel,      \* restoreUiState's local sidePanel (found or not)
  retval,          \* <<>> or <<r>>: the value of `return results` (line 410)
  returned,        \* <<>>: not returned; <<r>>: the orchestrator resolved with r
  rejected,        \* the orchestrator's promise rejected
  loopExit,        \* how the per-title loop ended
  restoreCalls,    \* number of invocations of restoreUiState
  restoreAt,       \* <<>> or <<t>>: the clock when restoreUiState was entered
  restoreLog,      \* restoration steps attempted, in order
  restoreThrew,    \* the restoration step that threw, if any
  abortResults,    \* <<>> or <<r>>: results when a list-visibility check failed
  output,          \* extractMarkdownFromPage's output lines
  document,        \* <<>> or <<d>>: the final Markdown document (as lines)
  pageResult,      \* <<>> or <<r>>: what extractMarkdownFromPage resolved with
  hasCanvasRef,    \* checkForCanvasReference(root) as read at line 123
  \* ---- the popup (SpecPopup) ----
  hpc,             \* per click: position of the click handler
  includeCanvas,   \* per click: the checkbox as read by the handler
  timer,           \* per click: "none", "armed", "fired", "cleared"
  page,            \* per click: phase of the injected extractMarkdownFromPage
  pageClicks,      \* per click: automated clicks made on the page UI by its run
  result,          \* per click: what the injected call resolved with
  status,          \* the status line as last set: [text, error]
  said,            \* per click: the handler's last setStatus call
  clipboard,       \* per click: number of clipboard writes
  timerErrors,     \* per click: number of errors produced by the timer
  \* ---- one call of waitFor (SpecWait) ----
  wpc,             \* position inside waitFor
  wNow,            \* Date.now()
  wStart,          \* waitFor's local start
  wTimeout, wInterval,   \* the options of the call
  wLast,           \* outcome of the last evaluation of the condition
  wSwallowed,      \* exceptions of the condition swallowed so far
  wRet,            \* <<>> or <<v>>: the value waitFor resolved with
  \* ---- the text helpers (SpecText) ----
  tpc,             \* which helper has been applied to the text
  text,            \* the input string, as a sequence of characters
  pass1, pass2,    \* <<>> or <<s>>: the result of one pass, of a second pass
  fences,          \* <<>> or <<[block, inline]>>: the delimiters chosen for text
  \* ---- collectConversationNodes (SpecNodes) ----
  npc,             \* position: "new", "found", "collected", "rendered"
  parentOf,        \* the tree under the search root
  kindOf,          \* what each element matches
  candidates,      \* the local candidates
  nodes,           \* the returned sequence
  sections,        \* the speaker sections pushed by the turn loop
  turnDoc,         \* the returned document of the turns, as a sequence of characters
  \* ---- the list renderer (SpecList) ----
  lpc,             \* "new", "rendered", "cleaned"
  rendered,        \* the Markdown of the lists, as a sequence of characters
  \* ---- code blocks (SpecCode) ----
  cpc,             \* "new", "rendered", "done", "canvas"
  codeText,        \* the text of the code element / of the editor
  container,       \* the element around the pre element
  block,           \* what the container returns
  codeDoc,         \* the returned document
  canvasSection,   \* the section getCanvasContent returns
  \* ---- links (SpecLink) ----
  apc,             \* "new", "rendered"
  href,            \* the href attribute of the anchor
  linkText,        \* the converted children of the anchor
  linkOut,         \* what convertNode returns for the anchor
  \* ---- math elements (SpecMath) ----
  mpc,             \* "new", "rendered"
  mathEl,          \* the element convertNode is called on
  mathOut,         \* what convertNode returns for it
  \* ---- htmlToMarkdown (SpecDom) ----
  dpc,             \* "new", "cloned", "cleaned", "returned"
  liveDom,         \* the content element of the page
  cloneDom,        \* the clone htmlToMarkdown works on
  domOut,          \* the Markdown htmlToMarkdown returns
  \* ---- listCreatedFileTitles (SpecTitles) ----
  fpc,             \* "new", "returned"
  sectionContainer,\* "none", "hidden", "visible"
  titleEls,        \* the texts of the title elements of the container
  fileTitles,      \* what listCreatedFileTitles returns
  \* ---- readMonacoDomText (SpecMonaco) ----
  rpc,             \* "new", "scroll", "returned"
  editorLines,     \* the lines of the editor
  lineHeight,      \* the height of a line, in pixels
  viewLines,       \* the height of the viewport, in lines
  hasScrollable,   \* the scrollable element is found
  collected,       \* the lines pushed so far
  scrollPos,       \* pos of the loop
  monacoRet,       \* what readMonacoDomText returns
  \* ---- the window scroll (SpecScroll) ----
  spc,             \* "new", "loop", "restore", "reopen", "returned", "caught"
  windowY,         \* window.scrollY
  windowScroll,    \* the offset in the snapshot
  scrollEnv        \* the snapshot and the page the restore meets

uiVars == <<layout, chips, uiPace, hostOk, turnsFound, includeCanvasArg, sidebarOpen, editor, pendingOpen, uiResponsive,
            chipMissed, throws>>
envConst == <<layout, chips, uiPace, hostOk, turnsFound, includeCanvasArg>>
snapVars == <<totalStart, uiState>>
loopVars == <<results, processedTitles, titles, idx, everOpenedEditor, loopExit,
              abortResults>>
callVars == <<efvRet, efvResult, esoRet>>
restoreVars == <<rSidePanel, restoreCalls, restoreAt, restoreLog, restoreThrew>>
docVars == <<output, document, pageResult, hasCanvasRef>>
endVars == <<retval, returned, rejected, docVars>>
orchVars == <<pc, now, snapVars, pollTimeout, loopVars, callVars, restoreVars, endVars>>
popupVars == <<hpc, includeCanvas, timer, page, pageClicks, result, status, said, clipboard,
               timerErrors>>
waitVars == <<wpc, wNow, wStart, wTimeout, wInterval, wLast, wSwallowed, wRet>>
textVars == <<tpc, text, pass1, pass2, fences>>
nodeVars == <<npc, parentOf, kindOf, candidates, nodes, sections, turnDoc>>
listVars == <<lpc, rendered>>
codeVars == <<cpc, codeText, container, block, codeDoc, canvasSection>>
linkVars == <<apc, href, linkText, linkOut>>
mathVars == <<mpc, mathEl, mathOut>>
domVars == <<dpc, liveDom, cloneDom, domOut>>
titlesVars == <<fpc, sectionContainer, titleEls, fileTitles>>
monacoVars == <<rpc, editorLines, lineHeight, viewLines, hasScrollable, collected, scrollPos, monacoRet>>
scrollVars == <<spc, windowY, windowScroll, scrollEnv>>
renderVars == <<codeVars, linkVars, mathVars, domVars, titlesVars, monacoVars, scrollVars>>
libVars == <<waitVars, textVars, nodeVars, listVars, renderVars>>
notCodeVars == <<uiVars, orchVars, popupVars, waitVars, textVars, nodeVars, listVars, linkVars, mathVars, domVars, titlesVars, monacoVars, scrollVars>>
notLinkVars == <<uiVars, orchVars, popupVars, waitVars, textVars, nodeVars, listVars, codeVars, mathVars, domVars, titlesVars, monacoVars, scrollVars>>
notMathVars == <<uiVars, orchVars, popupVars, waitVars, textVars, nodeVars, listVars, codeVars, linkVars, domVars, titlesVars, monacoVars, scrollVars>>
notDomVars == <<uiVars, orchVars, popupVars, waitVars, textVars, nodeVars, listVars, codeVars, linkVars, mathVars, titlesVars, monacoVars, scrollVars>>
notTitlesVars == <<uiVars, orchVars, popupVars, waitVars, textVars, nodeVars, listVars, codeVars, linkVars, mathVars, domVars, monacoVars, scrollVars>>
notMonacoVars == <<uiVars, orchVars, popupVars, waitVars, textVars, nodeVars, listVars, codeVars, linkVars, mathVars, domVars, titlesVars, scrollVars>>
notScrollVars == <<uiVars, orchVars, popupVars, waitVars, textVars, nodeVars, listVars, codeVars, linkVars, mathVars, domVars, titlesVars, monacoVars>>
vars == <<uiVars, orchVars, popupVars, libVars>>

(* ------------------------------------------------------------------ *)
(* Small helpers                                                       *)
(* ------------------------------------------------------------------ *)
Min(a, b) == IF a < b THEN a ELSE b
Max(a, b) == IF a > b THEN a ELSE b

Range(s) == {s[i] : i \in 1..Len(s)}

TitleName(i) == CASE i = 1 -> "t1" [] i = 2 -> "t2" [] i = 3 -> "t3" [] i = 4 -> "t4"
                  [] OTHER -> "t5"

\* the chip lists: n distinct titles in DOM order, or n - 1 distinct titles
\* followed by a second chip carrying the first title
DistinctChips(n) == [i \in 1..n |-> TitleName(i)]
ChipLists == {DistinctChips(n) : n \in 0..MaxChips}
               \cup {Append(DistinctChips(n - 1), TitleName(1)) : n \in 2..MaxChips}

(* ------------------------------------------------------------------ *)
(* The page UI as the code reads it                                    *)
(* ------------------------------------------------------------------ *)
\* document.querySelector(closeBtnSel)
closeBtnPresent == sidebarOpen

\* findSidePanel(): found through the close-sidebar button
findSidePanel == sidebarOpen

\* document.querySelector(".monaco-editor .view-line")
monacoOpen == editor # <<>>

\* the created-section container is rendered: the side panel is open and, in
\* the inline layout, no editor view has replaced the list
isFileListVisible == sidebarOpen /\ (layout = "overlay" \/ editor = <<>>)

isImmersivePanelOpen == layout = "overlay" /\ editor # <<>>

\* a back control / a "Files" tab inside the side panel (inline editor view)
backButtonPresent == layout = "inline" /\ sidebarOpen /\ editor # <<>>
filesTabPresent == layout = "inline" /\ sidebarOpen /\ editor # <<>>

\* reactions of the host UI to the automated clicks
AfterToggle == [open |-> TRUE, ed |-> editor]
AfterCloseSidebar == [open |-> FALSE, ed |-> IF layout = "inline" THEN <<>> ELSE editor]
AfterBack == [open |-> sidebarOpen, ed |-> <<>>]
AfterChip(t) == [open |-> sidebarOpen, ed |-> <<t>>]
AfterImmersiveClose == [open |-> sidebarOpen, ed |-> <<>>]

(* ------------------------------------------------------------------ *)
(* waitFor                                                             *)
(* ------------------------------------------------------------------ *)
\* the clock, relative to the call, at which waitFor returns null: the first
\* poll boundary at or after the timeout (the condition itself takes no time)
WaitGiveUp(timeout, interval) ==
  IF timeout <= 0 THEN 0 ELSE ((timeout + interval - 1) \div interval) * interval

\* the poll at which a UI that answers in time is seen to have answered: the
\* first one (prompt UI) or the last one before the timeout (slow UI)
PollTimes(timeout, interval) ==
  IF timeout <= 0 THEN {}
  ELSE IF uiPace = "prompt" THEN {0}
  ELSE {WaitGiveUp(timeout, interval) - interval}

\* outcomes of waitFor on a condition that only a UI reaction can make true
WaitOutcomes(timeout, interval) ==
  {[ok |-> TRUE, dt |-> d] : d \in PollTimes(timeout, interval)}
    \cup {[ok |-> FALSE, dt |-> WaitGiveUp(timeout, interval)]}

(* ------------------------------------------------------------------ *)
(* Pure helpers of the orchestrator                                    *)
(* ------------------------------------------------------------------ *)
\* Array.from(new Set(titles)): first occurrences, in encounter order
RECURSIVE Dedup(_)
Dedup(s) == IF s = <<>> THEN <<>>
            ELSE LET d == Dedup(SubSeq(s, 1, Len(s) - 1))
                 IN IF s[Len(s)] \in Range(d) THEN d ELSE Append(d, s[Len(s)])

listCreatedFileTitles == IF isFileListVisible THEN Dedup(chips) ELSE <<>>

\* getCanvasContent({titleFallback}): null when no editor content is readable;
\* the heading carries titleFallback, or the editor's title element
Fragment(t, c) == [kind |-> "section", title |-> t, code |-> c]
getCanvasContent(titleFallback) ==
  IF editor = <<>> THEN <<>>
  ELSE <<Fragment(IF titleFallback = <<>> THEN editor[1] ELSE titleFallback[1], editor[1])>>

\* variant: unshift instead of push
PushFront(rs, f) == <<f>> \o rs

\* results.push(content) (293, 364, 402)
PushResult(rs, f) == Append(rs, f)

\* variant: the processed-title skip is missing
NeverProcessed(t) == FALSE

\* processedTitles.has(title) (319)
AlreadyProcessed(t) == t \in processedTitles

Line(k) == [kind |-> k, title |-> "", code |-> ""]

\* cleanupMarkdown on the joined lines: runs of blank lines collapse to one
\* blank line (3+ newlines -> 2) and the text is trimmed
RECURSIVE CollapseBlank(_)
CollapseBlank(s) ==
  IF Len(s) < 2 THEN s
  ELSE LET r == CollapseBlank(Tail(s))
       IN IF s[1].kind = "blank" /\ r[1].kind = "blank" THEN r ELSE <<s[1]>> \o r

RECURSIVE TrimLeft(_)
TrimLeft(s) == IF s # <<>> /\ s[1].kind = "blank" THEN TrimLeft(Tail(s)) ELSE s

RECURSIVE TrimRight(_)
TrimRight(s) == IF s # <<>> /\ s[Len(s)].kind = "blank"
                THEN TrimRight(SubSeq(s, 1, Len(s) - 1)) ELSE s

cleanupMarkdown(s) == TrimRight(TrimLeft(CollapseBlank(s)))

\* the lines pushed for the Canvas sections (popup.js 117-120)
RECURSIVE SectionLines(_)
SectionLines(secs) ==
  IF secs = <<>> THEN <<>>
  ELSE <<Line("blank"), Line("rule"), Line("blank"), secs[1]>> \o SectionLines(Tail(secs))

Elapsed == now - totalStart

\* output after the turn loop of extractMarkdownFromPage (100-112), one turn
TurnLines == <<Line("header"), Line("blank"), Line("speaker"), Line("body"),
               Line("blank"), Line("rule"), Line("blank")>>

(* ------------------------------------------------------------------ *)
(* extractAllCanvasContent                                             *)
(* ------------------------------------------------------------------ *)
SetUi(r) == sidebarOpen' = r.open /\ editor' = r.ed

\* a click followed by waitFor(cond, timeout, interval), cond being what the
\* reaction `after` establishes: the UI answers at one of the polls, or not
\* within the wait
ClickAndWait(after, timeout, interval) ==
  \E o \in WaitOutcomes(timeout, interval) :
    /\ now' = now + o.dt
    /\ IF o.ok THEN SetUi(after) /\ uiResponsive' = uiResponsive
               ELSE UNCHANGED <<sidebarOpen, editor>> /\ uiResponsive' = FALSE

\* captureUiState (136-187) and the locals of lines 277-283
captureUiState ==
  [sidebarWasOpen |-> closeBtnPresent,
   hadMonacoOpen |-> monacoOpen,
   currentCanvasTitle |-> editor,
   sidePanelScrollKnown |-> closeBtnPresent /\ findSidePanel,
   fileListScrollKnown |-> isFileListVisible,
   monacoScrollKnown |-> monacoOpen,
   immersivePanelOpen |-> isImmersivePanelOpen]

\* the two result shapes of extractMarkdownFromPage
Markdown(d) == [markdown |-> d]
ErrorResult(m) == [error |-> m]

\* variant: the host check is missing
hostAlwaysMatches == TRUE

\* line 85: location.hostname.endsWith("gemini.google.com")
hostMatches == hostOk

\* extractMarkdownFromPage, lines 84-116 and 130: the host check, the turn
\* nodes, the turn loop; without artifacts the document is returned at once
Entry ==
  /\ pc = "entry"
  /\ IF ~hostMatches
     THEN /\ pageResult' = <<ErrorResult("not a Gemini page")>>
          /\ pc' = "done"
          /\ UNCHANGED <<output, document>>
     ELSE IF ~turnsFound
     THEN /\ pageResult' = <<ErrorResult("no conversation element")>>
          /\ pc' = "done"
          /\ UNCHANGED <<output, document>>
     ELSE /\ output' = TurnLines
          /\ IF includeCanvasArg
             THEN pc' = "start" /\ UNCHANGED <<document, pageResult>>
             ELSE /\ document' = <<cleanupMarkdown(output')>>
                  /\ pageResult' = <<Markdown(document'[1])>>
                  /\ pc' = "done"
  /\ UNCHANGED <<uiVars, now, snapVars, pollTimeout, loopVars, callVars, restoreVars, retval, returned,
                 rejected, hasCanvasRef, popupVars, libVars>>

\* variant: extractMarkdownFromPage without its try/catch
PageUncaught ==
  /\ pc = "entry"
  /\ hostMatches /\ turnsFound
  /\ throws < MaxThrows
  /\ throws' = throws + 1
  /\ pageResult' = <<[rejection |-> "exception"]>>
  /\ pc' = "done"
  /\ UNCHANGED <<envConst, sidebarOpen, editor, pendingOpen, uiResponsive, chipMissed, now,
                 snapVars, pollTimeout, loopVars, callVars, restoreVars, retval, returned, rejected,
                 output, document, hasCanvasRef, popupVars, libVars>>

\* lines 100-112, 131-133: the renderer throws on a turn; the catch turns the
\* exception into an error descriptor
PageCatch ==
  /\ pc = "entry"
  /\ hostMatches /\ turnsFound
  /\ throws < MaxThrows
  /\ throws' = throws + 1
  /\ pageResult' = <<ErrorResult("exception")>>
  /\ pc' = "done"
  /\ UNCHANGED <<envConst, sidebarOpen, editor, pendingOpen, uiResponsive, chipMissed, now,
                 snapVars, pollTimeout, loopVars, callVars, restoreVars, retval, returned, rejected,
                 output, document, hasCanvasRef, popupVars, libVars>>

Capture ==
  /\ pc = "start"
  /\ uiState' = <<captureUiState>>
  /\ results' = <<>>
  /\ processedTitles' = {}
  /\ totalStart' = now
  /\ pc' = "step1"
  /\ UNCHANGED <<uiVars, now, pollTimeout, titles, idx, everOpenedEditor, loopExit,
                 abortResults, callVars, restoreVars, endVars, popupVars, libVars>>

\* lines 288-297: read what is already shown, then call ensureSidebarOpen
StepOne ==
  /\ pc = "step1"
  /\ LET currentContent == getCanvasContent(<<>>)
     IN IF currentContent # <<>>
        THEN /\ processedTitles' = processedTitles \cup {currentContent[1].title}
             /\ results' = PushResult(results, currentContent[1])
        ELSE UNCHANGED <<processedTitles, results>>
  /\ pc' = "eso"
  /\ esoRet' = "pre_list"
  /\ UNCHANGED <<uiVars, now, snapVars, pollTimeout, titles, idx, everOpenedEditor, loopExit,
                 abortResults, efvRet, efvResult, restoreVars, endVars, popupVars, libVars>>

\* variant: the toggle is clicked without looking for an open panel
EnsureSidebarOpenAlwaysToggles ==
  /\ pc = "eso"
  /\ ClickAndWait([open |-> ~sidebarOpen, ed |-> editor], SidebarOpenTimeout, DefaultInterval)
  /\ pc' = esoRet
  /\ UNCHANGED <<envConst, pendingOpen, chipMissed, throws, snapVars, pollTimeout, loopVars,
                 callVars, restoreVars, endVars, popupVars, libVars>>

\* ensureSidebarOpen (498-519)
EnsureSidebarOpen ==
  /\ pc = "eso"
  /\ IF findSidePanel \/ closeBtnPresent
     THEN UNCHANGED <<sidebarOpen, editor, uiResponsive, now>>
     ELSE ClickAndWait(AfterToggle, SidebarOpenTimeout, DefaultInterval)
  /\ pc' = esoRet
  /\ UNCHANGED <<envConst, pendingOpen, chipMissed, throws, snapVars, pollTimeout, loopVars, callVars,
                 restoreVars, endVars, popupVars, libVars>>

\* line 298
PreList ==
  /\ pc = "pre_list"
  /\ pc' = "efv"
  /\ efvRet' = "enumerate"
  /\ UNCHANGED <<uiVars, now, snapVars, pollTimeout, loopVars, efvResult, esoRet, restoreVars, endVars,
                 popupVars, libVars>>

\* ensureFileListVisible (722-749), line 723
EfvCheck ==
  /\ pc = "efv"
  /\ IF isFileListVisible
     THEN efvResult' = TRUE /\ pc' = efvRet
     ELSE efvResult' = efvResult /\ pc' = "efv_back"
  /\ UNCHANGED <<uiVars, now, snapVars, pollTimeout, loopVars, efvRet, esoRet, restoreVars, endVars,
                 popupVars, libVars>>

\* lines 725-730: the back action and its bounded wait
EfvBack ==
  /\ pc = "efv_back"
  /\ UNCHANGED <<envConst, pendingOpen, chipMissed, throws, snapVars, pollTimeout, loopVars, efvRet, esoRet,
                 restoreVars, endVars, popupVars, libVars>>
  /\ IF findSidePanel /\ backButtonPresent
     THEN /\ ClickAndWait(AfterBack, ListWaitTimeout, DefaultInterval)
          /\ IF isFileListVisible'
             THEN efvResult' = TRUE /\ pc' = efvRet
             ELSE efvResult' = efvResult /\ pc' = "efv_files"
     ELSE /\ UNCHANGED <<sidebarOpen, editor, uiResponsive, now, efvResult>>
          /\ pc' = "efv_files"

\* lines 731-734: the files-tab action and its bounded wait
EfvFiles ==
  /\ pc = "efv_files"
  /\ UNCHANGED <<envConst, pendingOpen, chipMissed, throws, snapVars, pollTimeout, loopVars, efvRet, esoRet,
                 restoreVars, endVars, popupVars, libVars>>
  /\ IF findSidePanel /\ filesTabPresent
     THEN /\ ClickAndWait(AfterBack, ListWaitTimeout, DefaultInterval)
          /\ IF isFileListVisible'
             THEN efvResult' = TRUE /\ pc' = efvRet
             ELSE efvResult' = efvResult /\ pc' = "efv_close"
     ELSE /\ UNCHANGED <<sidebarOpen, editor, uiResponsive, now, efvResult>>
          /\ pc' = "efv_close"

\* lines 737-747: close the panel, then call ensureSidebarOpen
EfvClose ==
  /\ pc = "efv_close"
  /\ IF closeBtnPresent
     THEN ClickAndWait(AfterCloseSidebar, ListWaitTimeout, DefaultInterval)
     ELSE UNCHANGED <<sidebarOpen, editor, uiResponsive, now>>
  /\ pc' = "eso"
  /\ esoRet' = "efv_end"
  /\ UNCHANGED <<envConst, pendingOpen, chipMissed, throws, snapVars, pollTimeout, loopVars, efvRet, efvResult,
                 restoreVars, endVars, popupVars, libVars>>

\* variant: the fallback reports success without looking
EfvEndAlwaysTrue ==
  /\ pc = "efv_end"
  /\ efvResult' = TRUE
  /\ pc' = efvRet
  /\ UNCHANGED <<uiVars, now, snapVars, pollTimeout, loopVars, efvRet, esoRet, restoreVars,
                 endVars, popupVars, libVars>>

\* line 748
EfvEnd ==
  /\ pc = "efv_end"
  /\ efvResult' = isFileListVisible
  /\ pc' = efvRet
  /\ UNCHANGED <<uiVars, now, snapVars, pollTimeout, loopVars, efvRet, esoRet, restoreVars, endVars,
                 popupVars, libVars>>

\* lines 302-305
Enumerate ==
  /\ pc = "enumerate"
  /\ titles' = listCreatedFileTitles
  /\ IF Len(titles') > 0
     THEN everOpenedEditor' = FALSE /\ idx' = 1 /\ pc' = "loop_top"
     ELSE UNCHANGED <<everOpenedEditor, idx>> /\ pc' = "fallback"
  /\ UNCHANGED <<uiVars, now, snapVars, pollTimeout, results, processedTitles, loopExit,
                 abortResults, callVars, restoreVars, endVars, popupVars, libVars>>

\* lines 308-312: next title, the budget check, the call of ensureFileListVisible
LoopTop ==
  /\ pc = "loop_top"
  /\ IF idx > Len(titles)
     THEN /\ loopExit' = "normal"
          /\ pc' = "return"
          /\ UNCHANGED efvRet
     ELSE IF Elapsed > MAX_TOTAL_MS
     THEN /\ loopExit' = "budget"
          /\ pc' = "return"
          /\ UNCHANGED efvRet
     ELSE /\ pc' = "efv"
          /\ efvRet' = "loop_ready"
          /\ UNCHANGED loopExit
  /\ UNCHANGED <<uiVars, now, snapVars, pollTimeout, results, processedTitles, titles, idx,
                 everOpenedEditor, abortResults, efvResult, esoRet, restoreVars,
                 endVars, popupVars, libVars>>

\* openFileByTitle (472-496): the chip is looked up again by exact title; the
\* click is answered at once or stays pending
openFileByTitle(title, clicked) ==
  IF ~isFileListVisible \/ title \notin Range(chips)
  THEN clicked = FALSE /\ UNCHANGED <<editor, pendingOpen, chipMissed>>
  ELSE \/ /\ clicked = FALSE        \* virtualization removed the chip from the tree
          /\ chipMissed' = TRUE
          /\ UNCHANGED <<editor, pendingOpen>>
       \/ /\ clicked = TRUE
          /\ UNCHANGED chipMissed
          /\ \/ editor' = AfterChip(title).ed /\ pendingOpen' = <<>>
             \/ editor' = editor /\ pendingOpen' = <<title>>

\* waitFor on a condition that needs an open editor (content, scrollable
\* element): true at the first poll when an editor view is already there,
\* else when the pending chip click is answered
AwaitEditor(timeout, interval, got) ==
  /\ pendingOpen' = <<>>
  /\ IF editor # <<>>
     THEN /\ got = TRUE
          /\ now' = now
          /\ IF pendingOpen = <<>>
             THEN UNCHANGED <<editor, uiResponsive>>
             ELSE \/ editor' = pendingOpen /\ UNCHANGED uiResponsive
                  \/ editor' = editor /\ uiResponsive' = FALSE
     ELSE IF pendingOpen # <<>>
     THEN \E o \in WaitOutcomes(timeout, interval) :
            /\ got = o.ok
            /\ now' = now + o.dt
            /\ IF o.ok THEN editor' = pendingOpen /\ UNCHANGED uiResponsive
                       ELSE editor' = editor /\ uiResponsive' = FALSE
     ELSE /\ got = FALSE
          /\ now' = now + WaitGiveUp(timeout, interval)
          /\ UNCHANGED <<editor, uiResponsive>>

\* lines 313-325: the visibility check, the processed-title skip, the click
LoopReady ==
  /\ pc = "loop_ready"
  /\ UNCHANGED <<envConst, sidebarOpen, uiResponsive, throws, now, snapVars, pollTimeout, results,
                 processedTitles, titles, everOpenedEditor, callVars, restoreVars,
                 endVars, popupVars, libVars>>
  /\ IF ~efvResult
     THEN /\ loopExit' = "list_lost"
          /\ abortResults' = <<results>>
          /\ pc' = "return"
          /\ UNCHANGED <<editor, pendingOpen, chipMissed, idx>>
     ELSE IF AlreadyProcessed(titles[idx])
     THEN /\ idx' = idx + 1
          /\ pc' = "loop_top"
          /\ UNCHANGED <<editor, pendingOpen, chipMissed, loopExit, abortResults>>
     ELSE \E clicked \in BOOLEAN :
            /\ openFileByTitle(titles[idx], clicked)
            /\ UNCHANGED <<loopExit, abortResults>>
            /\ IF clicked
               THEN pc' = "loop_codetab" /\ UNCHANGED idx
               ELSE pc' = "loop_top" /\ idx' = idx + 1

\* lines 328-347: with a side panel, waitFor a condition that selects the code
\* tab and is truthy: it returns at the first poll
LoopCodeTab ==
  /\ pc = "loop_codetab"
  /\ pc' = "loop_poll"
  /\ UNCHANGED <<uiVars, now, snapVars, pollTimeout, loopVars, callVars, restoreVars, endVars, popupVars, libVars>>

\* variant: the poll always gets the full cap
ContentPollTimeoutUncapped == ContentPollCap

\* the timeout handed to the content poll (351, 360)
remainingMs == MAX_TOTAL_MS - Elapsed
ContentPollTimeout == Min(ContentPollCap, remainingMs)

\* lines 351-352 and 360: remainingMs, the budget check, the poll's timeout
LoopBudget ==
  /\ pc = "loop_poll"
  /\ IF remainingMs <= 0
     THEN /\ loopExit' = "budget"
          /\ pc' = "return"
          /\ UNCHANGED pollTimeout
     ELSE /\ pollTimeout' = ContentPollTimeout
          /\ pc' = "loop_wait"
          /\ UNCHANGED loopExit
  /\ UNCHANGED <<uiVars, now, snapVars, results, processedTitles, titles, idx,
                 everOpenedEditor, abortResults, callVars, restoreVars, endVars,
                 popupVars, libVars>>

\* lines 353-372: the content poll, the bookkeeping, and the call of
\* ensureFileListVisible after the attempt
LoopPoll ==
  /\ pc = "loop_wait"
  /\ pollTimeout' = 0
  /\ UNCHANGED <<envConst, sidebarOpen, chipMissed, throws, snapVars, titles, idx,
                 abortResults, efvResult, esoRet, restoreVars, endVars, popupVars, libVars>>
  /\ \E got \in BOOLEAN :
       /\ AwaitEditor(pollTimeout, ContentPollInterval, got)
       /\ IF got
          THEN /\ results' = PushResult(results,
                     Fragment(titles[idx], IF editor # <<>> THEN editor[1] ELSE editor'[1]))
               /\ processedTitles' = processedTitles \cup {titles[idx]}
               /\ everOpenedEditor' = TRUE
               /\ pc' = "efv"
               /\ efvRet' = "loop_after"
               /\ UNCHANGED loopExit
          ELSE /\ UNCHANGED <<results, processedTitles, everOpenedEditor>>
               /\ IF ~everOpenedEditor
                  THEN loopExit' = "first_failed" /\ pc' = "return" /\ UNCHANGED efvRet
                  ELSE UNCHANGED loopExit /\ pc' = "efv" /\ efvRet' = "loop_after"

\* variant: the result of the check after the attempt is ignored
LoopAfterIgnoresCheck ==
  /\ pc = "loop_after"
  /\ idx' = idx + 1
  /\ pc' = "loop_top"
  /\ UNCHANGED <<uiVars, now, snapVars, pollTimeout, results, processedTitles, titles,
                 everOpenedEditor, loopExit, abortResults, callVars, restoreVars, endVars,
                 popupVars, libVars>>

\* lines 372-376 and the end of the iteration
LoopAfter ==
  /\ pc = "loop_after"
  /\ IF ~efvResult
     THEN /\ loopExit' = "list_lost"
          /\ abortResults' = <<results>>
          /\ pc' = "return"
          /\ UNCHANGED idx
     ELSE /\ idx' = idx + 1
          /\ pc' = "loop_top"
          /\ UNCHANGED <<loopExit, abortResults>>
  /\ UNCHANGED <<uiVars, now, snapVars, pollTimeout, results, processedTitles, titles, everOpenedEditor,
                 callVars, restoreVars, endVars, popupVars, libVars>>

\* lines 378-380: an exception thrown in the body of an iteration is logged and
\* the loop goes on with the next title
LoopCatch ==
  /\ throws < MaxThrows
  /\ throws' = throws + 1
  /\ pc \in {"loop_ready", "loop_after"}
  /\ idx' = idx + 1
  /\ pc' = "loop_top"
  /\ UNCHANGED <<envConst, sidebarOpen, editor, pendingOpen, uiResponsive, chipMissed, now, snapVars, pollTimeout, results, processedTitles, titles, everOpenedEditor,
                 loopExit, abortResults, callVars, restoreVars, endVars, popupVars, libVars>>

\* lines 382-405: no title was enumerated; the legacy "open" control is tried
\* once when nothing has been read
Fallback ==
  /\ pc = "fallback"
  /\ UNCHANGED <<envConst, sidebarOpen, chipMissed, throws, snapVars, pollTimeout, processedTitles, titles, idx,
                 everOpenedEditor, abortResults, callVars, restoreVars, endVars,
                 popupVars, libVars>>
  /\ loopExit' = "no_titles"
  /\ pc' = "return"
  /\ \E hasOpenButton \in BOOLEAN :
     IF results = <<>> /\ hasOpenButton
     THEN \E got \in BOOLEAN :
            /\ \E o \in WaitOutcomes(OpenButtonTimeout, DefaultInterval) :
                 /\ got = o.ok
                 /\ now' = now + o.dt
                 /\ IF o.ok THEN editor' = <<"t1">> /\ UNCHANGED uiResponsive
                            ELSE editor' = editor /\ uiResponsive' = FALSE
            /\ UNCHANGED pendingOpen
            /\ results' = IF got THEN PushResult(results, Fragment("t1", "t1")) ELSE results
     ELSE UNCHANGED <<editor, pendingOpen, uiResponsive, now, results>>

\* variant: no catch at 406: the exception leaves through the finally
OuterUncaught ==
  /\ throws < MaxThrows
  /\ throws' = throws + 1
  /\ pc \in {"pre_list", "enumerate", "fallback"}
  /\ loopExit' = "exception"
  /\ rejected' = TRUE
  /\ pc' = "return"
  /\ UNCHANGED <<envConst, sidebarOpen, editor, pendingOpen, uiResponsive, chipMissed, now, snapVars, pollTimeout, results, processedTitles, titles, idx,
                 everOpenedEditor, abortResults, callVars, restoreVars, retval, returned, docVars,
                 popupVars, libVars>>

\* lines 406-408: an exception thrown before or outside the iterations
OuterCatch ==
  /\ throws < MaxThrows
  /\ throws' = throws + 1
  /\ pc \in {"pre_list", "enumerate", "fallback"}
  /\ loopExit' = "exception"
  /\ pc' = "return"
  /\ UNCHANGED <<envConst, sidebarOpen, editor, pendingOpen, uiResponsive, chipMissed, now, snapVars, pollTimeout, results, processedTitles, titles, idx,
                 everOpenedEditor, abortResults, callVars, restoreVars, endVars,
                 popupVars, libVars>>

\* variant: an aborted loop gives up what it had collected
returnValueEmptyOnAbort == IF loopExit = "list_lost" THEN <<>> ELSE results

\* line 410: the value of `return results`
returnValue == results

\* variant: restoreUiState called after the try instead of in a finally
AfterReturnSkipsOnException(exit) == IF exit = "exception" THEN "r_end" ELSE "r_start"

\* lines 411-412: the finally block runs restoreUiState however the try ended
AfterReturn(exit) == "r_start"

Return ==
  /\ pc = "return"
  /\ retval' = <<returnValue>>
  /\ pc' = AfterReturn(loopExit)
  /\ UNCHANGED <<uiVars, now, snapVars, pollTimeout, loopVars, callVars, restoreVars, returned, rejected,
                 docVars, popupVars, libVars>>

(* ------------------------------------------------------------------ *)
(* restoreUiState (189-274)                                            *)
(* ------------------------------------------------------------------ *)
state == uiState[1]
shouldCloseImmersive == ~state.immersivePanelOpen

\* lines 192-199, 214: the window scroll, then the branch on sidebarWasOpen
RestoreStart ==
  /\ pc = "r_start"
  /\ restoreCalls' = restoreCalls + 1
  /\ restoreAt' = <<now>>
  /\ restoreLog' = Append(restoreLog, "windowScroll")
  /\ IF ~state.sidebarWasOpen
     THEN pc' = "r_closed" /\ UNCHANGED esoRet
     ELSE pc' = "eso" /\ esoRet' = "r_branch"
  /\ UNCHANGED <<uiVars, now, snapVars, pollTimeout, loopVars, efvRet, efvResult, rSidePanel,
                 restoreThrew, endVars, popupVars, libVars>>

\* lines 199-207: the side panel was closed at snapshot time: close it again
RestoreClosed ==
  /\ pc = "r_closed"
  /\ IF closeBtnPresent
     THEN /\ ClickAndWait(AfterCloseSidebar, RestoreWaitTimeout, DefaultInterval)
          /\ restoreLog' = Append(restoreLog, "closeSidebar")
     ELSE UNCHANGED <<sidebarOpen, editor, uiResponsive, now, restoreLog>>
  /\ pc' = "r_immersive"
  /\ UNCHANGED <<envConst, pendingOpen, chipMissed, throws, snapVars, pollTimeout, loopVars, callVars,
                 rSidePanel, restoreCalls, restoreAt, restoreThrew, endVars, popupVars, libVars>>

\* lines 215-218, 234: after ensureSidebarOpen
RestoreBranch ==
  /\ pc = "r_branch"
  /\ rSidePanel' = findSidePanel
  /\ IF state.hadMonacoOpen /\ state.currentCanvasTitle # <<>>
     THEN pc' = "efv" /\ efvRet' = "r_reopen"
     ELSE pc' = "r_tab" /\ UNCHANGED efvRet
  /\ UNCHANGED <<uiVars, now, snapVars, pollTimeout, loopVars, efvResult, esoRet, restoreCalls,
                 restoreAt, restoreLog, restoreThrew, endVars, popupVars, libVars>>

\* lines 219-233: re-open the previous editor view by title, restore its scroll
RestoreReopen ==
  /\ pc = "r_reopen"
  /\ UNCHANGED <<envConst, sidebarOpen, throws, snapVars, pollTimeout, loopVars, callVars, rSidePanel,
                 restoreCalls, restoreAt, restoreThrew, endVars, popupVars, libVars>>
  /\ restoreLog' = restoreLog \o <<"reopenEditor">>
                     \o (IF state.monacoScrollKnown THEN <<"monacoScroll">> ELSE <<>>)
  /\ pc' = "r_panelscroll"
  /\ \E clicked \in BOOLEAN :
       IF ~isFileListVisible \/ state.currentCanvasTitle[1] \notin Range(chips)
       THEN /\ clicked = FALSE
            /\ UNCHANGED <<chipMissed, pendingOpen>>
            /\ IF state.monacoScrollKnown /\ editor = <<>>
               THEN now' = now + WaitGiveUp(RestoreWaitTimeout, DefaultInterval)
               ELSE now' = now
            /\ UNCHANGED <<editor, uiResponsive>>
       ELSE \/ /\ clicked = FALSE
               /\ chipMissed' = TRUE
               /\ UNCHANGED <<pendingOpen, editor, uiResponsive>>
               /\ IF state.monacoScrollKnown /\ editor = <<>>
                  THEN now' = now + WaitGiveUp(RestoreWaitTimeout, DefaultInterval)
                  ELSE now' = now
            \/ /\ clicked = TRUE
               /\ UNCHANGED <<chipMissed, pendingOpen>>
               /\ \E o \in WaitOutcomes(RestoreWaitTimeout, DefaultInterval) :
                    /\ now' = now + (IF editor # <<>> THEN 0 ELSE o.dt)
                    /\ IF o.ok THEN editor' = AfterChip(state.currentCanvasTitle[1]).ed
                                    /\ UNCHANGED uiResponsive
                               ELSE editor' = editor /\ uiResponsive' = FALSE

\* lines 235-258: re-select the tab, close an editor view the run opened, then
\* call ensureFileListVisible for the list scroll
RestoreTab ==
  /\ pc = "r_tab"
  /\ UNCHANGED <<envConst, pendingOpen, chipMissed, throws, snapVars, pollTimeout, loopVars, efvResult, esoRet,
                 rSidePanel, restoreCalls, restoreAt, restoreThrew, endVars, popupVars, libVars>>
  /\ IF ~state.hadMonacoOpen /\ monacoOpen /\ rSidePanel
     THEN /\ restoreLog' = Append(restoreLog, "closeEditor")
          /\ IF backButtonPresent \/ filesTabPresent
             THEN ClickAndWait(AfterBack, RestoreWaitTimeout, DefaultInterval)
             ELSE /\ now' = now + WaitGiveUp(RestoreWaitTimeout, DefaultInterval)
                  /\ UNCHANGED <<sidebarOpen, editor, uiResponsive>>
     ELSE UNCHANGED <<sidebarOpen, editor, uiResponsive, now, restoreLog>>
  /\ IF state.fileListScrollKnown
     THEN pc' = "efv" /\ efvRet' = "r_listscroll"
     ELSE pc' = "r_panelscroll" /\ UNCHANGED efvRet

\* lines 259-260
RestoreListScroll ==
  /\ pc = "r_listscroll"
  /\ restoreLog' = IF isFileListVisible THEN Append(restoreLog, "fileListScroll")
                   ELSE restoreLog
  /\ pc' = "r_panelscroll"
  /\ UNCHANGED <<uiVars, now, snapVars, pollTimeout, loopVars, callVars, rSidePanel, restoreCalls,
                 restoreAt, restoreThrew, endVars, popupVars, libVars>>

\* lines 264-266
RestorePanelScroll ==
  /\ pc = "r_panelscroll"
  /\ restoreLog' = IF rSidePanel /\ state.sidePanelScrollKnown
                   THEN Append(restoreLog, "sidePanelScroll") ELSE restoreLog
  /\ pc' = "r_immersive"
  /\ UNCHANGED <<uiVars, now, snapVars, pollTimeout, loopVars, callVars, rSidePanel, restoreCalls,
                 restoreAt, restoreThrew, endVars, popupVars, libVars>>

\* variant: the overlay is closed whatever the snapshot says
RestoreImmersiveAlways ==
  /\ pc = "r_immersive"
  /\ IF TRUE
     THEN /\ restoreLog' = Append(restoreLog, "closeImmersive")
          /\ IF isImmersivePanelOpen
             THEN ClickAndWait(AfterImmersiveClose, ImmersiveCloseTimeout, DefaultInterval)
             ELSE UNCHANGED <<sidebarOpen, editor, uiResponsive, now>>
     ELSE UNCHANGED <<sidebarOpen, editor, uiResponsive, now, restoreLog>>
  /\ pc' = "r_end"
  /\ UNCHANGED <<envConst, pendingOpen, chipMissed, throws, snapVars, pollTimeout, loopVars, callVars,
                 rSidePanel, restoreCalls, restoreAt, restoreThrew, endVars, popupVars, libVars>>

\* closeImmersivePanel (593-625), called at lines 208-210 and 268-270
RestoreImmersive ==
  /\ pc = "r_immersive"
  /\ IF shouldCloseImmersive
     THEN /\ restoreLog' = Append(restoreLog, "closeImmersive")
          /\ IF isImmersivePanelOpen
             THEN ClickAndWait(AfterImmersiveClose, ImmersiveCloseTimeout, DefaultInterval)
             ELSE UNCHANGED <<sidebarOpen, editor, uiResponsive, now>>
     ELSE UNCHANGED <<sidebarOpen, editor, uiResponsive, now, restoreLog>>
  /\ pc' = "r_end"
  /\ UNCHANGED <<envConst, pendingOpen, chipMissed, throws, snapVars, pollTimeout, loopVars, callVars,
                 rSidePanel, restoreCalls, restoreAt, restoreThrew, endVars, popupVars, libVars>>

\* the restoration step about to run at each position
RestoreStepAt(p) ==
  CASE p = "r_closed" -> "closeSidebar"
    [] p = "r_reopen" -> "reopenEditor"
    [] p = "r_tab" -> "closeEditor"
    [] p = "r_listscroll" -> "fileListScroll"
    [] p = "r_panelscroll" -> "sidePanelScroll"
    [] OTHER -> "closeImmersive"

\* variant: the catch of restoreUiState rethrows
RestoreRethrow ==
  /\ throws < MaxThrows
  /\ throws' = throws + 1
  /\ pc \in {"r_closed", "r_reopen", "r_tab", "r_listscroll", "r_panelscroll", "r_immersive"}
  /\ restoreThrew' = RestoreStepAt(pc)
  /\ rejected' = TRUE
  /\ pc' = "rejected"
  /\ UNCHANGED <<envConst, sidebarOpen, editor, pendingOpen, uiResponsive, chipMissed, now, snapVars, pollTimeout, loopVars, callVars, rSidePanel, restoreCalls,
                 restoreAt, restoreLog, retval, returned, docVars, popupVars, libVars>>

\* lines 271-273: a restoration step throws; the one catch logs it and
\* restoreUiState ends
RestoreCatch ==
  /\ throws < MaxThrows
  /\ throws' = throws + 1
  /\ pc \in {"r_closed", "r_reopen", "r_tab", "r_listscroll", "r_panelscroll", "r_immersive"}
  /\ restoreThrew' = RestoreStepAt(pc)
  /\ pc' = "r_end"
  /\ UNCHANGED <<envConst, sidebarOpen, editor, pendingOpen, uiResponsive, chipMissed, now, snapVars, pollTimeout, loopVars, callVars, rSidePanel, restoreCalls,
                 restoreAt, restoreLog, endVars, popupVars, libVars>>

\* lines 411-413: restoreUiState has resolved; the orchestrator resolves with
\* the value of its return statement
Finish ==
  /\ pc = "r_end"
  /\ returned' = retval
  /\ pc' = "assemble"
  /\ UNCHANGED <<uiVars, now, snapVars, pollTimeout, loopVars, callVars, restoreVars, retval, rejected,
                 docVars, popupVars, libVars>>

\* the warning block of line 125
WarningLines == <<Line("blank"), Line("rule"), Line("blank"), Line("warning")>>

\* variant: the warning is pushed whenever a reference is present
CanvasLinesAlwaysWarn(secs, ref) ==
  SectionLines(secs) \o (IF ref THEN WarningLines ELSE <<>>)

\* lines 117-127: the sections, or the warning when there is none and the
\* root holds a reference to an artifact
CanvasLines(secs, ref) ==
  IF Len(secs) > 0 THEN SectionLines(secs)
  ELSE IF ref THEN WarningLines ELSE <<>>

\* extractMarkdownFromPage, lines 116-130
Assemble ==
  /\ pc = "assemble"
  /\ IF rejected
     THEN \* lines 131-133: a rejection of the orchestrator is caught here
          /\ pageResult' = <<ErrorResult("exception")>>
          /\ UNCHANGED <<hasCanvasRef, output, document>>
     ELSE /\ \E ref \in BOOLEAN :
               /\ hasCanvasRef' = ref
               /\ output' = output \o CanvasLines(returned[1], ref)
          /\ document' = <<cleanupMarkdown(output')>>
          /\ pageResult' = <<Markdown(document'[1])>>
  /\ pc' = "done"
  /\ UNCHANGED <<uiVars, now, snapVars, pollTimeout, loopVars, callVars, restoreVars, retval, returned,
                 rejected, popupVars, libVars>>

(* ------------------------------------------------------------------ *)
(* The specification of one orchestrator run                           *)
(* ------------------------------------------------------------------ *)
Clicks == 1..MaxClicks
Status(t, e) == [text |-> t, error |-> e]

PopupIdle ==
  /\ hpc = [c \in Clicks |-> "idle"]
  /\ includeCanvas = [c \in Clicks |-> FALSE]
  /\ timer = [c \in Clicks |-> "none"]
  /\ page = [c \in Clicks |-> "none"]
  /\ pageClicks = [c \in Clicks |-> 0]
  /\ result = [c \in Clicks |-> "none"]
  /\ status = Status("", FALSE)
  /\ said = [c \in Clicks |-> Status("", FALSE)]
  /\ clipboard = [c \in Clicks |-> 0]
  /\ timerErrors = [c \in Clicks |-> 0]

WaitIdle ==
  /\ wpc = "idle" /\ wNow = 0 /\ wStart = 0 /\ wTimeout = 0 /\ wInterval = 0
  /\ wLast = "none" /\ wSwallowed = 0 /\ wRet = <<>>

TextIdle ==
  /\ tpc = "new" /\ text = <<>> /\ pass1 = <<>> /\ pass2 = <<>> /\ fences = <<>>

NodesIdle ==
  /\ npc = "new" /\ parentOf = <<>> /\ kindOf = <<>> /\ candidates = <<>>
  /\ nodes = <<>> /\ sections = <<>> /\ turnDoc = <<>>

ListIdle == lpc = "new" /\ rendered = <<>>

CodeIdle ==
  /\ cpc = "new" /\ codeText = <<>> /\ container = "top" /\ block = <<>>
  /\ codeDoc = <<>> /\ canvasSection = <<>>

LinkIdle == apc = "new" /\ href = <<>> /\ linkText = <<>> /\ linkOut = <<>>

MathIdle == mpc = "new" /\ mathEl = <<>> /\ mathOut = <<>>

DomIdle == dpc = "new" /\ liveDom = <<>> /\ cloneDom = <<>> /\ domOut = <<>>

TitlesIdle == fpc = "new" /\ sectionContainer = "none" /\ titleEls = <<>> /\ fileTitles = <<>>

MonacoIdle == rpc = "new" /\ editorLines = <<>> /\ lineHeight = 200 /\ viewLines = 1 /\ hasScrollable = TRUE /\ collected = <<>> /\ scrollPos = 0 /\ monacoRet = <<>>

ScrollIdle == spc = "new" /\ windowY = 0 /\ windowScroll = <<>> /\ scrollEnv = <<>>

RenderIdle == CodeIdle /\ LinkIdle /\ MathIdle /\ DomIdle /\ TitlesIdle /\ MonacoIdle /\ ScrollIdle

LibIdle == WaitIdle /\ TextIdle /\ NodesIdle /\ ListIdle /\ RenderIdle

OrchIdle ==
  /\ pc = "entry" /\ now = 0 /\ totalStart = 0 /\ uiState = <<>>
  /\ results = <<>> /\ processedTitles = {} /\ titles = <<>> /\ idx = 0
  /\ everOpenedEditor = FALSE /\ efvRet = "" /\ efvResult = FALSE /\ esoRet = ""
  /\ rSidePanel = FALSE /\ retval = <<>> /\ returned = <<>> /\ rejected = FALSE
  /\ loopExit = "none" /\ restoreCalls = 0 /\ restoreAt = <<>> /\ restoreLog = <<>>
  /\ restoreThrew = "" /\ abortResults = <<>> /\ pollTimeout = 0
  /\ output = <<>> /\ document = <<>> /\ pageResult = <<>> /\ hasCanvasRef = FALSE

UiAtRest ==
  /\ layout \in {"inline", "overlay"}
  /\ sidebarOpen \in BOOLEAN
  /\ editor \in {<<>>} \cup {<<t>> : t \in Range(chips)}
  /\ (layout = "inline" /\ editor # <<>>) => sidebarOpen
  /\ pendingOpen = <<>>
  /\ uiResponsive = TRUE
  /\ chipMissed = FALSE
  /\ throws = 0
  /\ hostOk \in BOOLEAN
  /\ turnsFound \in BOOLEAN
  /\ includeCanvasArg \in BOOLEAN

\* a prompt UI with any of the chip lists
Init ==
  /\ chips \in ChipLists
  /\ uiPace = "prompt"
  /\ UiAtRest
  /\ OrchIdle
  /\ PopupIdle
  /\ LibIdle

\* a slow UI with a long list of distinct chips, the editor inside the side
\* panel (the layout in which the list has to be recovered after every read)
InitSlow ==
  /\ chips = DistinctChips(MaxSlowChips)
  /\ uiPace = "slow"
  /\ UiAtRest
  /\ layout = "inline"
  /\ editor \in {<<>>, <<TitleName(1)>>}
  /\ OrchIdle
  /\ PopupIdle
  /\ LibIdle

Next ==
  \/ Entry \/ PageCatch \/ Capture \/ StepOne \/ EnsureSidebarOpen \/ PreList
  \/ EfvCheck \/ EfvBack \/ EfvFiles \/ EfvClose \/ EfvEnd
  \/ Enumerate \/ LoopTop \/ LoopReady \/ LoopCodeTab \/ LoopBudget \/ LoopPoll \/ LoopAfter
  \/ LoopCatch \/ Fallback \/ OuterCatch \/ Return
  \/ RestoreStart \/ RestoreClosed \/ RestoreBranch \/ RestoreReopen \/ RestoreTab
  \/ RestoreListScroll \/ RestorePanelScroll \/ RestoreImmersive \/ RestoreCatch
  \/ Finish \/ Assemble

Spec == Init /\ [][Next]_vars

SpecSlow == InitSlow /\ [][Next]_vars

(* ------------------------------------------------------------------ *)
(* The popup: the copy button's click handler (18-60)                  *)
(* ------------------------------------------------------------------ *)
\* setStatus (13-16) called by the handler of click c
setStatus(c, t, e) ==
  /\ status' = Status(t, e)
  /\ said' = [said EXCEPT ![c] = Status(t, e)]

\* lines 18-26: the button is clicked; the handler shows "processing", saves
\* the checkbox and awaits the tab query. Nothing disables the button.
Click(c) ==
  /\ hpc[c] = "idle"
  /\ \A d \in Clicks : d < c => hpc[d] # "idle"
  /\ \E ic \in BOOLEAN : includeCanvas' = [includeCanvas EXCEPT ![c] = ic]
  /\ setStatus(c, "processing", FALSE)
  /\ hpc' = [hpc EXCEPT ![c] = "query"]
  /\ UNCHANGED <<timer, page, pageClicks, result, clipboard, timerErrors, uiVars, orchVars, libVars>>

\* line 37: the caller's timeout
OuterTimeout(ic) == IF ic THEN OuterTimeoutCanvas ELSE OuterTimeoutPlain

\* lines 26-39: the tab query resolved; without a tab the handler fails, else
\* the script is injected and withTimeout arms the timer
TabQueried(c) ==
  /\ hpc[c] = "query"
  /\ \/ /\ setStatus(c, "no active tab", TRUE)
        /\ hpc' = [hpc EXCEPT ![c] = "failed"]
        /\ UNCHANGED <<timer, page>>
     \/ /\ page' = [page EXCEPT ![c] = "injected"]
        /\ OuterTimeout(includeCanvas[c]) > 0
        /\ timer' = [timer EXCEPT ![c] = "armed"]
        /\ hpc' = [hpc EXCEPT ![c] = "racing"]
        /\ UNCHANGED <<status, said>>
  /\ UNCHANGED <<includeCanvas, pageClicks, result, clipboard, timerErrors, uiVars, orchVars, libVars>>

\* variant: the handler awaits the injected call alone, the timer is not raced
TimerFiresUnraced(c) ==
  /\ timer[c] = "armed"
  /\ timer' = [timer EXCEPT ![c] = "fired"]
  /\ UNCHANGED <<hpc, status, said, timerErrors>>
  /\ UNCHANGED <<includeCanvas, page, pageClicks, result, clipboard, uiVars, orchVars, libVars>>

\* lines 54-60, 48-51: the timer fires first: the race rejects with the timeout
\* message and the handler's catch reports it
TimerFires(c) ==
  /\ timer[c] = "armed"
  /\ timer' = [timer EXCEPT ![c] = "fired"]
  /\ hpc[c] = "racing"
  /\ timerErrors' = [timerErrors EXCEPT ![c] = @ + 1]
  /\ setStatus(c, "timeout", TRUE)
  /\ hpc' = [hpc EXCEPT ![c] = "timed_out"]
  /\ UNCHANGED <<includeCanvas, page, pageClicks, result, clipboard, uiVars, orchVars, libVars>>

\* extractMarkdownFromPage (83-133) without artifacts: no suspension point, the
\* injected call runs to its end
PagePlain(c) ==
  /\ page[c] = "injected"
  /\ ~includeCanvas[c]
  /\ page' = [page EXCEPT ![c] = "resolved"]
  /\ \E r \in {"markdown", "error"} : result' = [result EXCEPT ![c] = r]
  /\ UNCHANGED <<hpc, includeCanvas, timer, pageClicks, status, said, clipboard, timerErrors,
                 uiVars, orchVars, libVars>>

\* lines 84-98, 116, 277: with artifacts: an error descriptor at once, or the
\* orchestrator takes its snapshot and suspends in its first wait
PageCapture(c) ==
  /\ page[c] = "injected"
  /\ includeCanvas[c]
  /\ \/ /\ page' = [page EXCEPT ![c] = "resolved"]
        /\ result' = [result EXCEPT ![c] = "error"]
     \/ /\ page' = [page EXCEPT ![c] = "waiting"]
        /\ UNCHANGED result
  /\ UNCHANGED <<hpc, includeCanvas, timer, pageClicks, status, said, clipboard, timerErrors,
                 uiVars, orchVars, libVars>>

\* a wait of the run ends and the run makes its next automated click (the
\* toggle, a back action, a chip, ...), then suspends in the next wait
PageClick(c) ==
  /\ page[c] = "waiting"
  /\ pageClicks[c] < MaxPageClicks
  /\ pageClicks' = [pageClicks EXCEPT ![c] = @ + 1]
  /\ UNCHANGED <<hpc, includeCanvas, timer, page, result, status, said, clipboard,
                 timerErrors, uiVars, orchVars, libVars>>

\* lines 410-413, 116-130: restoreUiState is over and the call resolves with
\* the document
PageReturn(c) ==
  /\ page[c] = "waiting"
  /\ page' = [page EXCEPT ![c] = "resolved"]
  /\ result' = [result EXCEPT ![c] = "markdown"]
  /\ UNCHANGED <<hpc, includeCanvas, timer, pageClicks, status, said, clipboard, timerErrors,
                 uiVars, orchVars, libVars>>

\* variant: withTimeout without the finally(clearTimeout)
RaceSettledKeepsTimer(c) ==
  /\ hpc[c] = "racing"
  /\ page[c] = "resolved"
  /\ UNCHANGED timer
  /\ IF result[c] = "markdown"
     THEN hpc' = [hpc EXCEPT ![c] = "writing"] /\ UNCHANGED <<status, said>>
     ELSE hpc' = [hpc EXCEPT ![c] = "failed"] /\ setStatus(c, "error", TRUE)
  /\ UNCHANGED <<includeCanvas, page, pageClicks, result, clipboard, timerErrors, uiVars,
                 orchVars, libVars>>

\* lines 35-45, 59: the injected call resolved first: the race settles, the
\* finally clears the timer, the result is checked
RaceSettled(c) ==
  /\ hpc[c] = "racing"
  /\ page[c] = "resolved"
  /\ timer' = [timer EXCEPT ![c] = "cleared"]
  /\ IF result[c] = "markdown"
     THEN hpc' = [hpc EXCEPT ![c] = "writing"] /\ UNCHANGED <<status, said>>
     ELSE hpc' = [hpc EXCEPT ![c] = "failed"] /\ setStatus(c, "error", TRUE)
  /\ UNCHANGED <<includeCanvas, page, pageClicks, result, clipboard, timerErrors, uiVars,
                 orchVars, libVars>>

\* lines 45-51, 62-81: writeToClipboard, then "copied"; a failed write is
\* reported by the catch
ClipboardWrite(c) ==
  /\ hpc[c] = "writing"
  /\ clipboard' = [clipboard EXCEPT ![c] = @ + 1]
  /\ \/ hpc' = [hpc EXCEPT ![c] = "copied"] /\ setStatus(c, "copied", FALSE)
     \/ hpc' = [hpc EXCEPT ![c] = "failed"] /\ setStatus(c, "error", TRUE)
  /\ UNCHANGED <<includeCanvas, timer, page, pageClicks, result, timerErrors, uiVars,
                 orchVars, libVars>>

\* no page run is modelled: the page and the orchestrator stay as constructed
PageIdle ==
  /\ chips = <<>> /\ uiPace = "prompt" /\ layout = "overlay"
  /\ sidebarOpen = FALSE /\ editor = <<>> /\ pendingOpen = <<>>
  /\ uiResponsive = TRUE /\ chipMissed = FALSE /\ throws = 0
  /\ hostOk = TRUE /\ turnsFound = TRUE /\ includeCanvasArg = TRUE
  /\ OrchIdle

InitPopup ==
  /\ PageIdle
  /\ PopupIdle
  /\ LibIdle

NextPopup ==
  \/ \E c \in Clicks : Click(c)
  \/ \E c \in Clicks : TabQueried(c)
  \/ \E c \in Clicks : TimerFires(c)
  \/ \E c \in Clicks : PagePlain(c)
  \/ \E c \in Clicks : PageCapture(c)
  \/ \E c \in Clicks : PageClick(c)
  \/ \E c \in Clicks : PageReturn(c)
  \/ \E c \in Clicks : RaceSettled(c)
  \/ \E c \in Clicks : ClipboardWrite(c)

SpecPopup == InitPopup /\ [][NextPopup]_vars

(* ------------------------------------------------------------------ *)
(* waitFor (751-763), poll by poll                                     *)
(* ------------------------------------------------------------------ *)
\* options of the modelled calls, time a condition may take, lateness of the
\* sleep timer
WaitTimeouts == {0, 100, 250}
WaitIntervals == {100, 200}
CondDurations == {0, 50}
TimerLateness == {0, 10}

\* what one evaluation of the condition can produce
TruthyValues == {"v1", "v2"}
FalsyValues == {"null", "false", "zero"}

\* line 751-752: the call; start = Date.now()
WaitCall ==
  /\ wpc = "idle"
  /\ \E t \in WaitTimeouts, i \in WaitIntervals : wTimeout' = t /\ wInterval' = i
  /\ wStart' = wNow
  /\ wpc' = "test"
  /\ UNCHANGED <<wNow, wLast, wSwallowed, wRet, uiVars, orchVars, popupVars, textVars, nodeVars, listVars, renderVars>>

\* lines 753, 762: the loop condition; null once the timeout has elapsed
WaitTest ==
  /\ wpc = "test"
  /\ IF wNow - wStart < wTimeout
     THEN wpc' = "poll" /\ UNCHANGED wRet
     ELSE wpc' = "returned" /\ wRet' = <<"null">>
  /\ UNCHANGED <<wNow, wStart, wTimeout, wInterval, wLast, wSwallowed, uiVars, orchVars,
                 popupVars, textVars, nodeVars, listVars, renderVars>>

\* lines 755-756: the condition is evaluated and does not throw
WaitPoll ==
  /\ wpc = "poll"
  /\ \E d \in CondDurations : wNow' = wNow + d
  /\ \E v \in TruthyValues \cup FalsyValues :
       /\ wLast' = v
       /\ IF v \in TruthyValues
          THEN wpc' = "returned" /\ wRet' = <<v>>
          ELSE wpc' = "sleep" /\ UNCHANGED wRet
  /\ UNCHANGED <<wStart, wTimeout, wInterval, wSwallowed, uiVars, orchVars, popupVars, textVars, nodeVars, listVars, renderVars>>

\* variant: no try/catch around the evaluation of the condition
WaitUncaught ==
  /\ wpc = "poll"
  /\ \E d \in CondDurations : wNow' = wNow + d
  /\ wLast' = "throw"
  /\ wpc' = "rejected"
  /\ UNCHANGED <<wStart, wTimeout, wInterval, wSwallowed, wRet, uiVars, orchVars, popupVars, textVars, nodeVars, listVars, renderVars>>

\* lines 757-759: the condition throws (or rejects); the exception is swallowed
WaitCatch ==
  /\ wpc = "poll"
  /\ \E d \in CondDurations : wNow' = wNow + d
  /\ wLast' = "throw"
  /\ wSwallowed' = wSwallowed + 1
  /\ wpc' = "sleep"
  /\ UNCHANGED <<wStart, wTimeout, wInterval, wRet, uiVars, orchVars, popupVars, textVars, nodeVars, listVars, renderVars>>

\* variant: the clock stands still during the sleep
WaitSleepFrozen ==
  /\ wpc = "sleep"
  /\ \E late \in TimerLateness : wNow' = wNow + 0 * late
  /\ wpc' = "test"
  /\ UNCHANGED <<wStart, wTimeout, wInterval, wLast, wSwallowed, wRet, uiVars, orchVars,
                 popupVars, textVars, nodeVars, listVars, renderVars>>

\* line 760: setTimeout(r, interval)
WaitSleep ==
  /\ wpc = "sleep"
  /\ \E late \in TimerLateness : wNow' = wNow + wInterval + late
  /\ wpc' = "test"
  /\ UNCHANGED <<wStart, wTimeout, wInterval, wLast, wSwallowed, wRet, uiVars, orchVars,
                 popupVars, textVars, nodeVars, listVars, renderVars>>

InitWait ==
  /\ PageIdle
  /\ PopupIdle
  /\ LibIdle

NextWait ==
  \/ WaitCall \/ WaitTest \/ WaitPoll \/ WaitCatch \/ WaitSleep

SpecWait == InitWait /\ [][NextWait]_vars

(* ------------------------------------------------------------------ *)
(* The text helpers: cleanupMarkdown, cleanupMarkdownInline, makeFence *)
(* ------------------------------------------------------------------ *)
\* characters: a letter, a blank of the class [ \t], "\n", "\r", a backtick
Chars == {"a", "sp", "nl", "cr", "bt"}
Texts == UNION {[1..n -> Chars] : n \in 0..MaxTextLen}

Repeat(c, n) == [i \in 1..n |-> c]

\* length of the run of c the string starts with
RECURSIVE RunLen(_, _)
RunLen(s, c) == IF s # <<>> /\ s[1] = c THEN 1 + RunLen(Tail(s), c) ELSE 0

Drop(s, k) == SubSeq(s, k + 1, Len(s))

\* lines.join("\n")
RECURSIVE JoinLines(_)
JoinLines(ls) ==
  IF ls = <<>> THEN <<>>
  ELSE IF Len(ls) = 1 THEN ls[1]
  ELSE ls[1] \o <<"nl">> \o JoinLines(Tail(ls))

\* replace(/\r\n/g, "\n")
RECURSIVE ReplaceCrLf(_)
ReplaceCrLf(s) ==
  IF s = <<>> THEN <<>>
  ELSE IF Len(s) >= 2 /\ s[1] = "cr" /\ s[2] = "nl" THEN <<"nl">> \o ReplaceCrLf(Drop(s, 2))
  ELSE <<s[1]>> \o ReplaceCrLf(Tail(s))

\* replace(/\r/g, "\n")
RECURSIVE ReplaceCr(_)
ReplaceCr(s) ==
  IF s = <<>> THEN <<>>
  ELSE <<IF s[1] = "cr" THEN "nl" ELSE s[1]>> \o ReplaceCr(Tail(s))

\* replace(/[ \t]+\n/g, "\n")
RECURSIVE StripBlanksBeforeNl(_)
StripBlanksBeforeNl(s) ==
  IF s = <<>> THEN <<>>
  ELSE IF s[1] = "sp"
  THEN LET k == RunLen(s, "sp")
           rest == Drop(s, k)
       IN IF rest # <<>> /\ rest[1] = "nl"
          THEN StripBlanksBeforeNl(rest)
          ELSE SubSeq(s, 1, k) \o StripBlanksBeforeNl(rest)
  ELSE <<s[1]>> \o StripBlanksBeforeNl(Tail(s))

\* replace(/\n{atLeast,}/g, to newlines)
RECURSIVE CollapseNewlines(_, _, _)
CollapseNewlines(s, atLeast, to) ==
  IF s = <<>> THEN <<>>
  ELSE IF s[1] = "nl"
  THEN LET k == RunLen(s, "nl")
       IN (IF k >= atLeast THEN Repeat("nl", to) ELSE SubSeq(s, 1, k))
            \o CollapseNewlines(Drop(s, k), atLeast, to)
  ELSE <<s[1]>> \o CollapseNewlines(Tail(s), atLeast, to)

\* String.prototype.trim
WhiteSpace == {"sp", "nl", "cr"}
RECURSIVE trimStart(_)
trimStart(s) == IF s # <<>> /\ s[1] \in WhiteSpace THEN trimStart(Tail(s)) ELSE s
RECURSIVE trimEnd(_)
trimEnd(s) == IF s # <<>> /\ s[Len(s)] \in WhiteSpace
              THEN trimEnd(SubSeq(s, 1, Len(s) - 1)) ELSE s
trim(s) == trimEnd(trimStart(s))

\* variant: the lone "\r" is replaced after the blank lines are collapsed
cleanupMarkdownCrLast(s) ==
  trim(ReplaceCr(CollapseNewlines(StripBlanksBeforeNl(ReplaceCrLf(s)), 3, 2)))

\* cleanupMarkdown (1419-1426) on a string
cleanupMarkdownText(s) ==
  trim(CollapseNewlines(StripBlanksBeforeNl(ReplaceCr(ReplaceCrLf(s))), 3, 2))

\* cleanupMarkdownInline (1415-1417)
cleanupMarkdownInline(s) == CollapseNewlines(StripBlanksBeforeNl(s), 2, 1)

\* (code.match(/`+/g) || []).reduce((m, s) => Math.max(m, s.length), 0)
RECURSIVE LongestRun(_, _)
LongestRun(s, c) ==
  IF s = <<>> THEN 0
  ELSE IF s[1] = c
  THEN LET k == RunLen(s, c) IN Max(k, LongestRun(Drop(s, k), c))
  ELSE LongestRun(Tail(s), c)

\* variant: the fence is as long as the longest run
makeFenceNoMargin(code) == Repeat("bt", Max(3, LongestRun(code, "bt")))

\* makeFence (1389-1394)
makeFence(code) == Repeat("bt", Max(3, LongestRun(code, "bt") + 1))

\* makeInlineFence (1396-1400)
makeInlineFence(t) == Repeat("bt", LongestRun(t, "bt") + 1)

CleanupOnce ==
  /\ tpc = "new"
  /\ pass1' = <<cleanupMarkdownText(text)>>
  /\ tpc' = "md1"
  /\ UNCHANGED <<text, pass2, fences, waitVars, uiVars, orchVars, popupVars, nodeVars, listVars, renderVars>>

CleanupTwice ==
  /\ tpc = "md1"
  /\ pass2' = <<cleanupMarkdownText(pass1[1])>>
  /\ tpc' = "md2"
  /\ UNCHANGED <<text, pass1, fences, waitVars, uiVars, orchVars, popupVars, nodeVars, listVars, renderVars>>

InlineOnce ==
  /\ tpc = "new"
  /\ pass1' = <<cleanupMarkdownInline(text)>>
  /\ tpc' = "in1"
  /\ UNCHANGED <<text, pass2, fences, waitVars, uiVars, orchVars, popupVars, nodeVars, listVars, renderVars>>

InlineTwice ==
  /\ tpc = "in1"
  /\ pass2' = <<cleanupMarkdownInline(pass1[1])>>
  /\ tpc' = "in2"
  /\ UNCHANGED <<text, pass1, fences, waitVars, uiVars, orchVars, popupVars, nodeVars, listVars, renderVars>>

\* lines 1185 and 1194: the delimiters chosen for a code text
Fence ==
  /\ tpc = "new"
  /\ fences' = <<[block |-> makeFence(text), inline |-> makeInlineFence(text)]>>
  /\ tpc' = "fenced"
  /\ UNCHANGED <<text, pass1, pass2, waitVars, uiVars, orchVars, popupVars, nodeVars, listVars, renderVars>>

InitText ==
  /\ PageIdle
  /\ PopupIdle
  /\ WaitIdle
  /\ NodesIdle
  /\ ListIdle
  /\ RenderIdle
  /\ tpc = "new" /\ pass1 = <<>> /\ pass2 = <<>> /\ fences = <<>>
  /\ text \in Texts

NextText ==
  \/ CleanupOnce \/ CleanupTwice \/ InlineOnce \/ InlineTwice \/ Fence

SpecText == InitText /\ [][NextText]_vars

(* ------------------------------------------------------------------ *)
(* collectConversationNodes (977-1041) and the turn loop (103-112)     *)
(* ------------------------------------------------------------------ *)
\* The tree under the search root: elements 1..n numbered in document order,
\* parentOf[i] = 0 for a child of the root. kindOf[i]: "user" / "model" match
\* a user / model selector, "blank" is a model turn without text, "turn"
\* matches only the fallback selector, "none" matches nothing.
Kinds == {"none", "user", "model", "blank", "turn"}
Elements == 1..Len(parentOf)

\* a.contains(b)
RECURSIVE Contains(_, _)
Contains(a, b) ==
  IF b = 0 THEN FALSE
  ELSE IF a = b THEN TRUE
  ELSE Contains(a, parentOf[b])

\* parent functions whose numbering is the document (pre-)order
RECURSIVE OnPath(_, _, _)
OnPath(p, a, b) == IF b = 0 THEN FALSE ELSE IF a = b THEN TRUE ELSE OnPath(p, a, p[b])
Trees(n) ==
  {p \in [1..n -> 0..(n - 1)] :
     \A i \in 1..n : /\ p[i] < i
                     /\ (i > 1 /\ p[i] # 0) => OnPath(p, p[i], i - 1)}

\* searchRoot.querySelectorAll(sel): the matching elements, in document order
RECURSIVE querySelectorAll(_, _)
querySelectorAll(wanted, upTo) ==
  IF upTo = 0 THEN <<>>
  ELSE querySelectorAll(wanted, upTo - 1)
         \o (IF kindOf[upTo] \in wanted THEN <<upTo>> ELSE <<>>)

\* uniqueElements (1008-1017)
RECURSIVE uniqueElements(_)
uniqueElements(els) ==
  IF els = <<>> THEN <<>>
  ELSE LET out == uniqueElements(SubSeq(els, 1, Len(els) - 1))
       IN IF els[Len(els)] \in Range(out) THEN out ELSE Append(out, els[Len(els)])

\* variant: the two position bits are swapped
compareDomOrderReversed(a, b) == IF a = b THEN 0 ELSE IF b > a THEN 1 ELSE 0 - 1

\* compareDomOrder (1034-1040): b FOLLOWING a gives -1, b PRECEDING a gives 1
compareDomOrder(a, b) == IF a = b THEN 0 ELSE IF b > a THEN 0 - 1 ELSE 1

\* Array.prototype.sort(compareDomOrder)
RECURSIVE InsertSorted(_, _)
InsertSorted(x, sorted) ==
  IF sorted = <<>> THEN <<x>>
  ELSE IF compareDomOrder(x, sorted[1]) < 0 THEN <<x>> \o sorted
  ELSE <<sorted[1]>> \o InsertSorted(x, Tail(sorted))
RECURSIVE SortDom(_)
SortDom(els) ==
  IF els = <<>> THEN <<>>
  ELSE InsertSorted(els[Len(els)], SortDom(SubSeq(els, 1, Len(els) - 1)))

\* variant: nothing is filtered
keepContainedElements(sortedElements) == sortedElements

\* removeContainedElements (1019-1032)
RECURSIVE removeContainedElements(_)
removeContainedElements(sortedElements) ==
  IF sortedElements = <<>> THEN <<>>
  ELSE LET out == removeContainedElements(SubSeq(sortedElements, 1, Len(sortedElements) - 1))
           el == sortedElements[Len(sortedElements)]
       IN IF \E k \in 1..Len(out) : Contains(out[k], el) THEN out ELSE Append(out, el)

\* getSpeaker (1043-1065)
getSpeaker(node) == IF kindOf[node] = "user" THEN "User" ELSE "Gemini"

\* line 106: htmlToMarkdown(content).trim() of a turn
TurnMarkdown(node) ==
  CASE kindOf[node] = "user" -> <<"Hello">>
    [] kindOf[node] = "model" -> <<"Hi", "sp", "there">>
    [] kindOf[node] = "turn" -> <<"a", "nl", "nl", "b">>
    [] OTHER -> <<>>

\* lines 103-112: one section per node whose Markdown is not empty
RECURSIVE TurnSections(_)
TurnSections(ns) ==
  IF ns = <<>> THEN <<>>
  ELSE (IF TurnMarkdown(ns[1]) = <<>> THEN <<>>
        ELSE <<[speaker |-> getSpeaker(ns[1]), node |-> ns[1]]>>)
         \o TurnSections(Tail(ns))

\* variant: the rule is pushed without the blank line after it
SectionOutputNoBlank(sec) ==
  <<<<"##", "sp", sec.speaker>>, TurnMarkdown(sec.node), <<>>, <<"---">>>>

\* lines 109-111: what one turn pushes to output
SectionOutput(sec) ==
  <<<<"##", "sp", sec.speaker>>, TurnMarkdown(sec.node), <<>>, <<"---">>, <<>>>>

\* lines 100-112: output after the turn loop
RECURSIVE TurnOutput(_)
TurnOutput(secs) ==
  IF secs = <<>> THEN <<>> ELSE SectionOutput(secs[1]) \o TurnOutput(Tail(secs))

\* lines 992-1002: the selector query, and the fallback when it finds nothing
Collect ==
  /\ npc = "new"
  /\ LET found == querySelectorAll({"user", "model", "blank"}, Len(kindOf))
     IN candidates' = IF Len(found) = 0
                      THEN querySelectorAll({"turn"}, Len(kindOf))
                      ELSE found
  /\ npc' = "found"
  /\ UNCHANGED <<parentOf, kindOf, nodes, sections, turnDoc, waitVars, textVars, uiVars, orchVars,
                 popupVars, listVars, renderVars>>

\* lines 1004-1006
SortAndFilter ==
  /\ npc = "found"
  /\ nodes' = removeContainedElements(SortDom(uniqueElements(candidates)))
  /\ npc' = "collected"
  /\ UNCHANGED <<parentOf, kindOf, candidates, sections, turnDoc, waitVars, textVars, uiVars, orchVars,
                 popupVars, listVars, renderVars>>

\* lines 103-112
RenderTurns ==
  /\ npc = "collected"
  /\ sections' = TurnSections(nodes)
  /\ npc' = "rendered"
  /\ UNCHANGED <<parentOf, kindOf, candidates, nodes, turnDoc, waitVars, textVars, uiVars, orchVars,
                 popupVars, listVars, renderVars>>

\* lines 100-101 and 130: cleanupMarkdown(output.join("\n")), without Canvas
JoinDocument ==
  /\ npc = "rendered"
  /\ turnDoc' = cleanupMarkdownText(
                  JoinLines(<<<<"#", "sp", "title">>, <<>>>> \o TurnOutput(sections)))
  /\ npc' = "joined"
  /\ UNCHANGED <<parentOf, kindOf, candidates, nodes, sections, waitVars, textVars, uiVars,
                 orchVars, popupVars, listVars, renderVars>>

InitNodes ==
  /\ PageIdle
  /\ PopupIdle
  /\ WaitIdle
  /\ TextIdle
  /\ ListIdle
  /\ RenderIdle
  /\ \E n \in 0..MaxNodes : parentOf \in Trees(n) /\ kindOf \in [1..n -> Kinds]
  /\ npc = "new" /\ candidates = <<>> /\ nodes = <<>> /\ sections = <<>> /\ turnDoc = <<>>

NextNodes ==
  \/ Collect \/ SortAndFilter \/ RenderTurns \/ JoinDocument

SpecNodes == InitNodes /\ [][NextNodes]_vars

(* ------------------------------------------------------------------ *)
(* convertList / convertListItem (1322-1371)                           *)
(* ------------------------------------------------------------------ *)
\* The tree under the converted element, in parentOf / kindOf: lists "ul" and
\* "ol", items with own text "li" and without "li_blank", "other" for a child
\* of a list that is no li. Lists hold items, items hold nested lists.
ListKinds == {"ul", "ol", "li", "li_blank", "other"}
IsList(e) == kindOf[e] \in {"ul", "ol"}
IsItem(e) == kindOf[e] \in {"li", "li_blank"}
ListTrees(n) ==
  {k \in [1..n -> ListKinds] :
     \A e \in 1..n :
        IF parentOf[e] = 0 THEN k[e] \in {"ul", "ol"}
        ELSE IF k[parentOf[e]] \in {"ul", "ol"} THEN k[e] \in {"li", "li_blank", "other"}
        ELSE k[parentOf[e]] \in {"li", "li_blank"} /\ k[e] \in {"ul", "ol"}}

\* el.children / li.childNodes, in order
ChildrenOf(e) ==
  LET IsChild(i) == parentOf[i] = e
  IN SelectSeq([i \in 1..Len(parentOf) |-> i], IsChild)

DigitChar(i) ==
  CASE i = 1 -> "1" [] i = 2 -> "2" [] i = 3 -> "3" [] i = 4 -> "4" [] i = 5 -> "5"
    [] i = 6 -> "6" [] i = 7 -> "7" [] i = 8 -> "8" [] OTHER -> "9"

\* parts.filter(Boolean).join("\n")
RECURSIVE JoinNonEmpty(_)
JoinNonEmpty(parts) ==
  IF parts = <<>> THEN <<>>
  ELSE LET rest == JoinNonEmpty(Tail(parts))
       IN IF parts[1] = <<>> THEN rest
          ELSE IF rest = <<>> THEN parts[1]
          ELSE parts[1] \o <<"nl">> \o rest

\* variant: the nested list is converted with the depth of its own list
NestedDepthSame(depth) == depth - 1

\* line 1365: a nested list is converted with the context of its item
NestedDepth(depth) == depth

RECURSIVE convertList(_, _)
RECURSIVE convertListItem(_, _, _, _)

\* convertList (1322-1340); depth is ctx.listDepth
convertList(listEl, depth) ==
  LET items == SelectSeq(ChildrenOf(listEl), IsItem)
      isOrdered == kindOf[listEl] = "ol"
  IN IF Len(items) = 0 THEN <<>>
     ELSE JoinLines([k \in 1..Len(items) |->
                       convertListItem(items[k], depth + 1, isOrdered, k)])
            \o <<"nl", "nl">>

\* convertListItem (1342-1371)
convertListItem(li, depth, listOrdered, listIndex) ==
  LET indent == Repeat("sp", 2 * Max(0, depth - 1))
      bullet == IF listOrdered THEN <<DigitChar(listIndex), ".", "sp">> ELSE <<"-", "sp">>
      itemText == IF kindOf[li] = "li" THEN <<"a">> ELSE <<>>
      headLine == trimEnd(indent \o bullet \o itemText)
      nestedLists == SelectSeq(ChildrenOf(li), IsList)
      nestedMd == JoinNonEmpty([k \in 1..Len(nestedLists) |->
                                  trimEnd(convertList(nestedLists[k], NestedDepth(depth)))])
  IN IF nestedMd = <<>> THEN headLine ELSE headLine \o <<"nl">> \o nestedMd

\* convertChildren (1137-1143) of an element that holds only lists
RECURSIVE convertLists(_)
convertLists(ls) ==
  IF ls = <<>> THEN <<>> ELSE convertList(ls[1], 0) \o convertLists(Tail(ls))

\* htmlToMarkdown(content).trim() (line 106) of an element that holds lists
RenderLists ==
  /\ lpc = "new"
  /\ rendered' = trim(convertLists(ChildrenOf(0)))
  /\ lpc' = "rendered"
  /\ UNCHANGED <<nodeVars, waitVars, textVars, uiVars, orchVars, popupVars, renderVars>>

\* line 130: cleanupMarkdown of the document
CleanLists ==
  /\ lpc = "rendered"
  /\ rendered' = cleanupMarkdownText(rendered)
  /\ lpc' = "cleaned"
  /\ UNCHANGED <<nodeVars, waitVars, textVars, uiVars, orchVars, popupVars, renderVars>>

InitList ==
  /\ PageIdle
  /\ PopupIdle
  /\ WaitIdle
  /\ TextIdle
  /\ RenderIdle
  /\ npc = "new" /\ candidates = <<>> /\ nodes = <<>> /\ sections = <<>> /\ turnDoc = <<>>
  /\ \E n \in 1..MaxListNodes : parentOf \in Trees(n) /\ kindOf \in ListTrees(n)
  /\ lpc = "new" /\ rendered = <<>>

NextList ==
  \/ RenderLists \/ CleanLists

SpecList == InitList /\ [][NextList]_vars

(* ------------------------------------------------------------------ *)
(* Code blocks: convertNode (pre), its containers, the Canvas section  *)
(* ------------------------------------------------------------------ *)
\* replace(/\n+$/g, "")
RECURSIVE StripTrailingNl(_)
StripTrailingNl(s) ==
  IF s # <<>> /\ s[Len(s)] = "nl" THEN StripTrailingNl(SubSeq(s, 1, Len(s) - 1)) ELSE s

\* normalizeCode (1385-1387)
normalizeCode(c) == StripTrailingNl(ReplaceCr(ReplaceCrLf(c)))

\* length of the white-space run the string starts with
RECURSIVE SpaceRunLen(_)
SpaceRunLen(s) ==
  IF s # <<>> /\ s[1] \in WhiteSpace THEN 1 + SpaceRunLen(Tail(s)) ELSE 0

\* position of the last "\n" among the first k characters, or 0
RECURSIVE LastNl(_, _)
LastNl(s, k) == IF k = 0 THEN 0 ELSE IF s[k] = "nl" THEN k ELSE LastNl(s, k - 1)

\* replace(/\s+\n/g, "\n") (line 1358)
RECURSIVE StripSpaceBeforeNl(_)
StripSpaceBeforeNl(s) ==
  IF s = <<>> THEN <<>>
  ELSE IF s[1] \in WhiteSpace
  THEN LET k == SpaceRunLen(s)
           n == LastNl(s, k)
       IN IF n >= 2
          THEN <<"nl">> \o SubSeq(s, n + 1, k) \o StripSpaceBeforeNl(Drop(s, k))
          ELSE SubSeq(s, 1, k) \o StripSpaceBeforeNl(Drop(s, k))
  ELSE <<s[1]>> \o StripSpaceBeforeNl(Tail(s))

\* convertNode, tag "pre" (1179-1188), no language
convertPre(c) ==
  LET normalized == normalizeCode(c)
      fence == makeFence(normalized)
  IN IF trim(normalized) = <<>> THEN <<>>
     ELSE <<"nl">> \o fence \o <<"nl">> \o normalized \o <<"nl">> \o fence \o <<"nl", "nl">>

\* variant: containers hand the block on as it is
convertContainerVerbatim(tag, inner) == inner

\* what the element around the block returns: the block itself at the top of
\* the content node, a block-like element (1236-1243), a paragraph (1163-1167)
\* or the item of an unordered list (1342-1371, 1322-1340)
convertContainer(tag, inner) ==
  CASE tag = "div" ->
         LET trimmed == cleanupMarkdownText(inner)
         IN IF trimmed = <<>> THEN <<>> ELSE trimmed \o <<"nl", "nl">>
    [] tag = "p" ->
         LET t == trim(cleanupMarkdownInline(inner))
         IN IF t = <<>> THEN <<>> ELSE t \o <<"nl", "nl">>
    [] tag = "li" ->
         trimEnd(<<"-", "sp">> \o trim(StripSpaceBeforeNl(cleanupMarkdownInline(inner))))
           \o <<"nl", "nl">>
    [] OTHER -> inner

Containers == {"top", "div", "p", "li"}

\* the fence getCanvasContent writes (line 886)
CanvasFence == <<"bt", "bt", "bt">>

\* getCanvasContent (852-891): the section of an artifact whose codeText is c
canvasSectionOf(c) ==
  <<"##", "sp", "Canvas:", "sp", "title", "nl", "nl">>
    \o CanvasFence \o <<"nl">> \o c \o <<"nl">> \o CanvasFence

\* htmlToMarkdown of a content node that holds the pre element in `container`
RenderPre ==
  /\ cpc = "new"
  /\ block' = convertContainer(container, convertPre(codeText))
  /\ cpc' = "rendered"
  /\ UNCHANGED <<codeText, container, codeDoc, canvasSection, notCodeVars>>

\* lines 100-112 and 130 for one turn whose content is that node
FinishDocument ==
  /\ cpc = "rendered"
  /\ LET markdown == trim(block)
     IN codeDoc' = cleanupMarkdownText(JoinLines(
          <<<<"#", "sp", "title">>, <<>>>>
            \o (IF markdown = <<>> THEN <<>>
                ELSE <<<<"##", "sp", "Gemini">>, markdown, <<>>, <<"---">>, <<>>>>)))
  /\ cpc' = "done"
  /\ UNCHANGED <<codeText, container, block, canvasSection, notCodeVars>>

\* getCanvasContent reads an editor that holds the same codeText
ReadCanvas ==
  /\ cpc = "new"
  /\ codeText # <<>>
  /\ canvasSection' = canvasSectionOf(codeText)
  /\ cpc' = "canvas"
  /\ UNCHANGED <<codeText, container, block, codeDoc, notCodeVars>>

InitCode ==
  /\ PageIdle
  /\ PopupIdle
  /\ WaitIdle
  /\ TextIdle
  /\ NodesIdle
  /\ ListIdle
  /\ LinkIdle
  /\ MathIdle
  /\ DomIdle
  /\ TitlesIdle
  /\ MonacoIdle
  /\ ScrollIdle
  /\ cpc = "new" /\ block = <<>> /\ codeDoc = <<>> /\ canvasSection = <<>>
  /\ codeText \in Texts
  /\ container \in Containers

NextCode ==
  \/ RenderPre \/ FinishDocument \/ ReadCanvas

SpecCode == InitCode /\ [][NextCode]_vars

(* ------------------------------------------------------------------ *)
(* Links: convertNode (a) and toAbsoluteUrl                            *)
(* ------------------------------------------------------------------ *)
\* an href attribute, in pieces: white space, the scheme name javascript in
\* lower case or with capitals, the scheme name https, the colon, other
\* characters
HrefChars == {"sp", "javascript", "JavaScript", "https", ":", "x"}
Hrefs == UNION {[1..n -> HrefChars] : n \in 0..MaxHrefLen}
SchemeNames == {"javascript", "JavaScript", "https"}
LowerCase(c) == IF c = "JavaScript" THEN "javascript" ELSE c

\* variant: the test is made on the trimmed, lower-cased attribute
hasJavascriptPrefixNormalized(h) ==
  LET t == trimStart(h)
  IN Len(t) >= 2 /\ LowerCase(t[1]) = "javascript" /\ t[2] = ":"

\* href.startsWith("javascript:") (line 1202)
hasJavascriptPrefix(h) == Len(h) >= 2 /\ h[1] = "javascript" /\ h[2] = ":"

\* the page's location.href
BaseUrl == <<"https", ":", "//gemini.google.com/app/">>

\* toAbsoluteUrl (1402-1408): new URL(href, location.href).toString(). The
\* URL parser removes the white space around its input, takes a leading
\* scheme name whatever its letter case and writes it in lower case; an input
\* without a scheme is resolved against the base
toAbsoluteUrl(h) ==
  LET t == trim(h)
  IN IF Len(t) >= 2 /\ t[1] \in SchemeNames /\ t[2] = ":"
     THEN <<LowerCase(t[1])>> \o Tail(t)
     ELSE BaseUrl \o t

\* convertNode, tag "a" (1198-1205)
RenderAnchor ==
  /\ apc = "new"
  /\ LET t == IF linkText # <<>> THEN linkText ELSE href
     IN linkOut' = IF href = <<>> \/ hasJavascriptPrefix(href)
                   THEN <<[kind |-> "text", text |-> t, url |-> <<>>]>>
                   ELSE <<[kind |-> "link", text |-> t, url |-> toAbsoluteUrl(href)]>>
  /\ apc' = "rendered"
  /\ UNCHANGED <<href, linkText, notLinkVars>>

InitLink ==
  /\ PageIdle
  /\ PopupIdle
  /\ WaitIdle
  /\ TextIdle
  /\ NodesIdle
  /\ ListIdle
  /\ CodeIdle
  /\ MathIdle
  /\ DomIdle
  /\ TitlesIdle
  /\ MonacoIdle
  /\ ScrollIdle
  /\ apc = "new" /\ linkOut = <<>>
  /\ href \in Hrefs
  /\ linkText \in {<<>>, <<"x">>}

NextLink ==
  \/ RenderAnchor

SpecLink == InitLink /\ [][NextLink]_vars

(* ------------------------------------------------------------------ *)
(* Math: convertNode's default branch, extractLatex, isBlockLike       *)
(* ------------------------------------------------------------------ *)
MathTags == {"span", "div", "math"}
MathClasses == {"katex", "math-inline", "math-block", "block-math"}
\* a TeX source with white space around it, and the same in an attribute
TexSource == <<"sp", "x", "=", "y", "sp">>
\* an element: its tag, its classes, its data-math / data-tex attribute, the
\* text of its x-tex annotation, its alt / aria-label attribute, the text of
\* its math/tex script, whether its display is "block", and the Markdown of
\* its children
MathElements ==
  [tag : MathTags,
   classList : SUBSET MathClasses,
   dataMath : {<<>>, TexSource},
   annotation : {<<>>, TexSource},
   label : {<<>>, <<"i">>, <<"bs", "x">>},
   script : {<<>>, TexSource},
   display : {"", "block"},
   children : {<<>>, <<"t", "sp">>}]

\* isBlockLike (1309-1320), for the tags of the model
isBlockLike(tag) == tag = "div"

\* extractLatex (1277-1307); <<>> stands for null
extractLatex(el) ==
  IF el.dataMath # <<>> THEN el.dataMath
  ELSE IF el.annotation # <<>> THEN el.annotation
  ELSE IF el.label # <<>> /\ ("bs" \in Range(el.label) \/ "=" \in Range(el.label)) THEN el.label
  ELSE IF el.script # <<>> THEN el.script
  ELSE <<>>

\* the test of line 1246-1253
isMathElement(el) ==
  el.tag = "math" \/ el.classList \cap {"katex", "math-inline", "math-block"} # {}

\* isBlock of lines 1256-1260
isBlockMath(el) ==
  \/ "block-math" \in el.classList
  \/ "math-block" \in el.classList
  \/ el.display = "block"
  \/ el.tag = "div"

blockMath(latex) == <<"nl", "$$", "nl">> \o trim(latex) \o <<"nl", "$$", "nl", "nl">>
inlineMath(latex) == <<"$">> \o trim(latex) \o <<"$">>

\* the math branch (1245-1272) of an element that reached it
convertMath(el) ==
  IF isMathElement(el) /\ extractLatex(el) # <<>>
  THEN IF isBlockMath(el) THEN blockMath(extractLatex(el)) ELSE inlineMath(extractLatex(el))
  ELSE el.children

\* convertNode from line 1236 on: the block-like containers return first
convertDefault(el) ==
  IF isBlockLike(el.tag)
  THEN LET trimmed == trim(cleanupMarkdownText(el.children))
       IN IF trimmed = <<>> THEN <<>> ELSE trimmed \o <<"nl", "nl">>
  ELSE convertMath(el)

RenderMath ==
  /\ mpc = "new"
  /\ mathOut' = convertDefault(mathEl)
  /\ mpc' = "rendered"
  /\ UNCHANGED <<mathEl, notMathVars>>

InitMath ==
  /\ PageIdle
  /\ PopupIdle
  /\ WaitIdle
  /\ TextIdle
  /\ NodesIdle
  /\ ListIdle
  /\ CodeIdle
  /\ LinkIdle
  /\ DomIdle
  /\ TitlesIdle
  /\ MonacoIdle
  /\ ScrollIdle
  /\ mpc = "new" /\ mathOut = <<>>
  /\ mathEl \in MathElements

NextMath ==
  \/ RenderMath

SpecMath == InitMath /\ [][NextMath]_vars

(* ------------------------------------------------------------------ *)
(* htmlToMarkdown: the clone and its cleanup                           *)
(* ------------------------------------------------------------------ *)
\* what a node of the content element is: a text node, a plain element, an
\* element one of the removeSelectors matches, a math script, another script
DomKinds == {"text", "span", "button", "svg", "mathscript", "script"}
RemoveSelectors == {"button", "svg"}

\* the content element is node 0; node i hangs under an earlier node that is
\* not a text node; present holds the nodes still in the tree
Doms(n) ==
  {d \in [parentOf : [1..n -> 0..(n - 1)], kindOf : [1..n -> DomKinds], present : {1..n}] :
     \A i \in 1..n : d.parentOf[i] < i /\ (d.parentOf[i] # 0 => d.kindOf[d.parentOf[i]] # "text")}

RECURSIVE IsUnder(_, _, _)
IsUnder(d, i, a) == i = a \/ (i # 0 /\ IsUnder(d, d.parentOf[i], a))

\* el.remove() for every node of a set: the nodes and what hangs under them go
RemoveAll(d, els) ==
  [d EXCEPT !.present = {i \in d.present : \A a \in els : ~IsUnder(d, i, a)}]

\* cleanup (1099-1135): the selectors, then the scripts that are not math
cleanup(d) ==
  LET bySelector == RemoveAll(d, {i \in d.present : d.kindOf[i] \in RemoveSelectors})
  IN RemoveAll(bySelector, {i \in bySelector.present : bySelector.kindOf[i] = "script"})

\* convertChildren / convertNode (1137-1150) on the kinds of the model: a text
\* node gives its text, an element the Markdown of its children
RECURSIVE convertChildrenFrom(_, _, _)
convertChildrenFrom(d, parent, i) ==
  IF i > Len(d.kindOf) THEN <<>>
  ELSE (IF i \in d.present /\ d.parentOf[i] = parent
        THEN IF d.kindOf[i] = "text" THEN <<"t">>
             ELSE <<d.kindOf[i]>> \o convertChildrenFrom(d, i, i + 1)
        ELSE <<>>)
       \o convertChildrenFrom(d, parent, i + 1)

\* const clone = element.cloneNode(true) (1089)
CloneNode ==
  /\ dpc = "new"
  /\ cloneDom' = liveDom
  /\ dpc' = "cloned"
  /\ UNCHANGED <<liveDom, domOut, notDomVars>>

\* variant: cleanup(element), on the node passed in
CleanupLive ==
  /\ dpc = "cloned"
  /\ liveDom' = cleanup(liveDom)
  /\ cloneDom' = cleanup(cloneDom)
  /\ dpc' = "cleaned"
  /\ UNCHANGED <<domOut, notDomVars>>

\* cleanup(clone) (1090)
Cleanup ==
  /\ dpc = "cloned"
  /\ cloneDom' = cleanup(cloneDom)
  /\ dpc' = "cleaned"
  /\ UNCHANGED <<liveDom, domOut, notDomVars>>

\* md = convertChildren(clone, ...); return md (1092-1097)
ConvertClone ==
  /\ dpc = "cleaned"
  /\ domOut' = convertChildrenFrom(cloneDom, 0, 1)
  /\ dpc' = "returned"
  /\ UNCHANGED <<liveDom, cloneDom, notDomVars>>

InitDom ==
  /\ PageIdle
  /\ PopupIdle
  /\ WaitIdle
  /\ TextIdle
  /\ NodesIdle
  /\ ListIdle
  /\ CodeIdle
  /\ LinkIdle
  /\ MathIdle
  /\ TitlesIdle
  /\ MonacoIdle
  /\ ScrollIdle
  /\ dpc = "new" /\ cloneDom = <<>> /\ domOut = <<>>
  /\ liveDom \in UNION {Doms(n) : n \in 1..MaxDomNodes}

NextDom ==
  \/ CloneNode \/ Cleanup \/ ConvertClone

SpecDom == InitDom /\ [][NextDom]_vars

(* ------------------------------------------------------------------ *)
(* listCreatedFileTitles on the title elements of the container        *)
(* ------------------------------------------------------------------ *)
\* the text of an .immersive-title element: letters and blanks
TitleChars == {"a", "b", "sp"}
TitleTexts == UNION {[1..n -> TitleChars] : n \in 0..2}
TitleLists == UNION {[1..n -> TitleTexts] : n \in 0..MaxTitleEls}
\* what findCreatedSectionContainer (416-451) finds: no container, a container
\* that is not visible, a visible one
ContainerStates == {"none", "hidden", "visible"}

RECURSIVE MapTrim(_)
MapTrim(els) == IF els = <<>> THEN <<>> ELSE <<trim(Head(els))>> \o MapTrim(Tail(els))

RECURSIVE NonEmpty(_)
NonEmpty(ts) ==
  IF ts = <<>> THEN <<>>
  ELSE (IF Len(Head(ts)) > 0 THEN <<Head(ts)>> ELSE <<>>) \o NonEmpty(Tail(ts))

\* variant: the titles are returned as collected
titlesOfNoSet(found, els) ==
  IF found # "visible" THEN <<>> ELSE NonEmpty(MapTrim(els))

\* listCreatedFileTitles (453-470) for a container state and its title elements
titlesOf(found, els) ==
  IF found # "visible" THEN <<>> ELSE Dedup(NonEmpty(MapTrim(els)))

ListTitles ==
  /\ fpc = "new"
  /\ fileTitles' = titlesOf(sectionContainer, titleEls)
  /\ fpc' = "returned"
  /\ UNCHANGED <<sectionContainer, titleEls, notTitlesVars>>

InitTitles ==
  /\ PageIdle
  /\ PopupIdle
  /\ WaitIdle
  /\ TextIdle
  /\ NodesIdle
  /\ ListIdle
  /\ CodeIdle
  /\ LinkIdle
  /\ MathIdle
  /\ DomIdle
  /\ MonacoIdle
  /\ ScrollIdle
  /\ fpc = "new" /\ fileTitles = <<>>
  /\ sectionContainer \in ContainerStates
  /\ titleEls \in TitleLists

NextTitles ==
  \/ ListTitles

SpecTitles == InitTitles /\ [][NextTitles]_vars

(* ------------------------------------------------------------------ *)
(* readMonacoDomText: the rendered-view read of the editor             *)
(* ------------------------------------------------------------------ *)
\* a line of the editor, its trailing white space removed: two texts and the
\* blank line
EditorLines == {"x", "y", ""}
Editors == UNION {[1..n -> EditorLines] : n \in 0..MaxEditorLines}
\* the height of a line and the number of lines of the viewport; the editor
\* renders the lines that intersect the viewport
LineHeights == {100, 200}
ViewLines == {1, 2}
MinStep == 200

clientHeight == viewLines * lineHeight
scrollHeight == Max(Len(editorLines) * lineHeight, clientHeight)
\* step = Math.max(200, Math.floor(clientHeight * 0.8)) (line 937)
scrollStep == Max(MinStep, (clientHeight * 8) \div 10)

\* readLines (924-927) with the viewport at scrollTop = pos; the element
\* clamps the position to its range
readLines(pos) ==
  LET top == Min(pos, scrollHeight - clientHeight)
      first == (top \div lineHeight) + 1
      last == Min(Len(editorLines), (top + clientHeight + lineHeight - 1) \div lineHeight)
  IN SubSeq(editorLines, first, last)

AllBlank(ls) == \A i \in 1..Len(ls) : ls[i] = ""

\* the compression of consecutive duplicates (956-962)
RECURSIVE compress(_)
compress(ls) ==
  IF ls = <<>> THEN <<>>
  ELSE LET c == compress(SubSeq(ls, 1, Len(ls) - 1))
       IN IF c # <<>> /\ c[Len(c)] = ls[Len(ls)] THEN c ELSE Append(c, ls[Len(ls)])

\* join("\n").trim() (964) on lines without white space: the blank lines at
\* both ends go
RECURSIVE DropBlankHead(_)
DropBlankHead(ls) == IF ls # <<>> /\ Head(ls) = "" THEN DropBlankHead(Tail(ls)) ELSE ls
RECURSIVE DropBlankEnd(_)
DropBlankEnd(ls) == IF ls # <<>> /\ ls[Len(ls)] = "" THEN DropBlankEnd(SubSeq(ls, 1, Len(ls) - 1)) ELSE ls
trimLines(ls) == DropBlankEnd(DropBlankHead(ls))

\* a returned text as its lines, or null
TextOf(ls, path) == [null |-> FALSE, lines |-> ls, path |-> path]
NullText(path) == [null |-> TRUE, lines |-> <<>>, path |-> path]

\* lines 929-935: the first read, returned when it holds more than one line
\* and some text; without a scrollable element the read is returned, or null
MonacoFirstRead ==
  /\ rpc = "new"
  /\ LET lines == readLines(0)
     IN IF Len(lines) > 1 /\ ~AllBlank(lines)
        THEN /\ monacoRet' = <<TextOf(lines, "first")>>
             /\ rpc' = "returned"
             /\ UNCHANGED <<collected, scrollPos>>
        ELSE IF ~hasScrollable
        THEN /\ monacoRet' = <<IF AllBlank(lines) /\ Len(lines) < 2
                               THEN NullText("first") ELSE TextOf(lines, "first")>>
             /\ rpc' = "returned"
             /\ UNCHANGED <<collected, scrollPos>>
        ELSE \* pushLines() at the original position (948)
             /\ collected' = readLines(0)
             /\ scrollPos' = 0
             /\ rpc' = "scroll"
             /\ UNCHANGED monacoRet
  /\ UNCHANGED <<editorLines, lineHeight, viewLines, hasScrollable, notMonacoVars>>

\* one turn of the loop of lines 949-952
MonacoScroll ==
  /\ rpc = "scroll"
  /\ scrollPos <= scrollHeight
  /\ collected' = collected \o readLines(scrollPos)
  /\ scrollPos' = scrollPos + scrollStep
  /\ UNCHANGED <<rpc, monacoRet, editorLines, lineHeight, viewLines, hasScrollable, notMonacoVars>>

\* lines 953-968: the read at the end, the compression, the text
MonacoFinish ==
  /\ rpc = "scroll"
  /\ scrollPos > scrollHeight
  /\ LET all == collected \o readLines(scrollHeight)
         joined == trimLines(compress(all))
     IN /\ collected' = all
        /\ monacoRet' = <<IF joined = <<>> THEN NullText("scroll") ELSE TextOf(joined, "scroll")>>
  /\ rpc' = "returned"
  /\ UNCHANGED <<scrollPos, editorLines, lineHeight, viewLines, hasScrollable, notMonacoVars>>

InitMonaco ==
  /\ PageIdle
  /\ PopupIdle
  /\ WaitIdle
  /\ TextIdle
  /\ NodesIdle
  /\ ListIdle
  /\ CodeIdle
  /\ LinkIdle
  /\ MathIdle
  /\ DomIdle
  /\ TitlesIdle
  /\ ScrollIdle
  /\ rpc = "new" /\ collected = <<>> /\ scrollPos = 0 /\ monacoRet = <<>>
  /\ editorLines \in Editors
  /\ lineHeight \in LineHeights
  /\ viewLines \in ViewLines
  /\ hasScrollable \in BOOLEAN

NextMonaco ==
  \/ MonacoFirstRead \/ MonacoScroll \/ MonacoFinish

SpecMonaco == InitMonaco /\ [][NextMonaco]_vars

(* ------------------------------------------------------------------ *)
(* The window scroll offset through captureUiState and restoreUiState  *)
(* ------------------------------------------------------------------ *)
Offsets == 0..MaxScroll
\* what the run meets: the snapshot's sidebarWasOpen, hadMonacoOpen and
\* currentCanvasTitle, whether the page itself scrolls, and whether
\* openFileByTitle finds the chip of the title in a visible container
ScrollEnvs ==
  [sidebarWasOpen : BOOLEAN, hadMonacoOpen : BOOLEAN, hasTitle : BOOLEAN,
   pageScrolls : BOOLEAN, chipFound : BOOLEAN]

\* clickable.scrollIntoView({block: "center"}) (490): every scrollable
\* ancestor moves so as to centre the chip, the window included when the page
\* scrolls; where that leaves the window depends on the layout
scrollIntoView(y) == IF scrollEnv.pageScrolls THEN Offsets ELSE {y}

\* captureUiState, line 142
CaptureWindowScroll ==
  /\ spc = "new"
  /\ windowScroll' = <<windowY>>
  /\ spc' = "loop"
  /\ UNCHANGED <<windowY, scrollEnv, notScrollVars>>

\* the per-title loop: openFileByTitle (472-496) scrolls the chip into view
LoopOpenFile ==
  /\ spc = "loop"
  /\ \E y \in scrollIntoView(windowY) : windowY' = y
  /\ spc' = "restore"
  /\ UNCHANGED <<windowScroll, scrollEnv, notScrollVars>>

\* restoreUiState, lines 195-197, and the branches of 199 and 218 that lead
\* to openFileByTitle; the other steps leave the window alone
RestoreWindowScroll ==
  /\ spc = "restore"
  /\ windowY' = windowScroll[1]
  /\ spc' = IF scrollEnv.sidebarWasOpen /\ scrollEnv.hadMonacoOpen /\ scrollEnv.hasTitle
            THEN "reopen" ELSE "returned"
  /\ UNCHANGED <<windowScroll, scrollEnv, notScrollVars>>

\* restoreUiState, line 220: openFileByTitle(root, state.currentCanvasTitle)
RestoreOpenFile ==
  /\ spc = "reopen"
  /\ IF scrollEnv.chipFound
     THEN \E y \in scrollIntoView(windowY) : windowY' = y
     ELSE UNCHANGED windowY
  /\ spc' = "returned"
  /\ UNCHANGED <<windowScroll, scrollEnv, notScrollVars>>

\* lines 271-273: a step after the window scroll throws and is caught
RestoreOpenFileThrows ==
  /\ spc = "reopen"
  /\ spc' = "caught"
  /\ UNCHANGED <<windowY, windowScroll, scrollEnv, notScrollVars>>

InitScroll ==
  /\ PageIdle
  /\ PopupIdle
  /\ WaitIdle
  /\ TextIdle
  /\ NodesIdle
  /\ ListIdle
  /\ CodeIdle
  /\ LinkIdle
  /\ MathIdle
  /\ DomIdle
  /\ TitlesIdle
  /\ MonacoIdle
  /\ spc = "new" /\ windowScroll = <<>>
  /\ windowY \in Offsets
  /\ scrollEnv \in ScrollEnvs

NextScroll ==
  \/ CaptureWindowScroll \/ LoopOpenFile \/ RestoreWindowScroll
  \/ RestoreOpenFile \/ RestoreOpenFileThrows

SpecScroll == InitScroll /\ [][NextScroll]_vars

(* ------------------------------------------------------------------ *)
(* Progress: an orchestration run, or one waitFor call on its own      *)
(* ------------------------------------------------------------------ *)
\* no page function is running: the waitFor call is observed alone
OrchOff == pc = "done" /\ pageResult = <<>>

\* a run of the page function against a prompt UI
InitLiveRun ==
  /\ chips \in ChipLists
  /\ Len(chips) <= MaxLiveChips
  /\ uiPace = "prompt"
  /\ UiAtRest
  /\ OrchIdle
  /\ PopupIdle
  /\ LibIdle

\* a waitFor call with no page function around it
InitLiveWait ==
  /\ chips = <<>> /\ uiPace = "prompt" /\ layout = "overlay"
  /\ sidebarOpen = FALSE /\ editor = <<>> /\ pendingOpen = <<>>
  /\ uiResponsive = TRUE /\ chipMissed = FALSE /\ throws = 0
  /\ hostOk = TRUE /\ turnsFound = TRUE /\ includeCanvasArg = TRUE
  /\ pc = "done" /\ now = 0 /\ totalStart = 0 /\ uiState = <<>>
  /\ results = <<>> /\ processedTitles = {} /\ titles = <<>> /\ idx = 0
  /\ everOpenedEditor = FALSE /\ efvRet = "" /\ efvResult = FALSE /\ esoRet = ""
  /\ rSidePanel = FALSE /\ retval = <<>> /\ returned = <<>> /\ rejected = FALSE
  /\ loopExit = "none" /\ restoreCalls = 0 /\ restoreAt = <<>> /\ restoreLog = <<>>
  /\ restoreThrew = "" /\ abortResults = <<>> /\ pollTimeout = 0
  /\ output = <<>> /\ document = <<>> /\ pageResult = <<>> /\ hasCanvasRef = FALSE
  /\ PopupIdle
  /\ LibIdle

InitLive == InitLiveRun \/ InitLiveWait

WaitLive == OrchOff /\ NextWait

NextLive == Next \/ WaitLive

\* the page function is one async function whose awaits all settle (each wait
\* gives up at its timeout), and the event loop runs the timer and the
\* condition of a pending waitFor: every enabled step is eventually taken
SpecLive == InitLive /\ [][NextLive]_vars /\ WF_vars(Next) /\ WF_vars(WaitLive)

(* ------------------------------------------------------------------ *)
(* Properties of the orchestrator (Spec)                               *)
(* ------------------------------------------------------------------ *)
RECURSIVE IsSubseq(_, _)
IsSubseq(a, b) ==
  IF a = <<>> THEN TRUE
  ELSE IF b = <<>> THEN FALSE
  ELSE IF a[1] = b[1] THEN IsSubseq(Tail(a), Tail(b))
  ELSE IsSubseq(a, Tail(b))

IsSection(l) == l.kind = "section"
Pos(s, t) == CHOOSE i \in 1..Len(s) : s[i] = t
TitleSet(rs) == {rs[i].title : i \in 1..Len(rs)}

\* the run is inside restoreUiState (or a helper called by it) or past it
RestorePcs == {"r_start", "r_closed", "r_branch", "r_reopen", "r_tab", "r_listscroll",
               "r_panelscroll", "r_immersive", "r_end"}
EfvPcs == {"efv", "efv_back", "efv_files", "efv_close", "efv_end"}
InHelperOf(rets) ==
  \/ pc \in EfvPcs /\ efvRet \in rets
  \/ pc = "eso" /\ (esoRet \in rets \/ (esoRet = "efv_end" /\ efvRet \in rets))
InRestore == pc \in RestorePcs \/ InHelperOf({"r_branch", "r_reopen", "r_listscroll"})
OrchReturned == returned # <<>>

\* C1: once the snapshot is taken, restoreUiState is invoked exactly once, and
\* only after the per-title loop has ended (normally, by a break, by the
\* budget, or through an exception): never twice, never while the loop is
\* running, and always before the orchestrator resolves.
C1_RestoreExactlyOnce ==
  /\ restoreCalls <= 1
  /\ restoreCalls = 1 <=> (InRestore /\ pc # "r_start") \/ OrchReturned
  /\ restoreCalls = 1 => loopExit # "none" /\ uiState # <<>>
  /\ pc \in {"return", "r_start"} => loopExit # "none" /\ uiState # <<>>

C1_Witness ==
  pc = "done" /\ restoreCalls = 1 /\ loopExit = "budget" /\ Len(returned[1]) >= 1

\* C2: when the loop aborts because the list cannot be made visible, the
\* fragments appended before the abort are all in the returned sequence and in
\* the final document, in the same order.
C2_AbortKeepsFragments ==
  (pc = "done" /\ loopExit = "list_lost") =>
     /\ IsSubseq(abortResults[1], returned[1])
     /\ IsSubseq(abortResults[1], SelectSeq(document[1], IsSection))

C2_Witness ==
  pc = "done" /\ loopExit = "list_lost" /\ Len(abortResults[1]) >= 2

\* C3: an exception in a restoration step never reaches the caller: the
\* orchestrator does not reject and resolves with exactly the results it had
\* collected.
C3_RestoreNeverRejects ==
  /\ ~rejected
  /\ restoreThrew # "" => pc \in {"r_end", "assemble", "done"}
  /\ OrchReturned => returned = <<results>>

C3_Witness ==
  pc = "done" /\ restoreThrew # "" /\ Len(returned[1]) >= 1

\* C4 (as claimed): when the step that re-opens the previous editor view
\* throws, the side-panel scroll restore and the overlay close are still
\* attempted.
C4_LaterStepsStillRun ==
  (pc = "done" /\ restoreThrew = "reopenEditor") =>
     /\ (rSidePanel /\ state.sidePanelScrollKnown) =>
            "sidePanelScroll" \in Range(restoreLog)
     /\ shouldCloseImmersive => "closeImmersive" \in Range(restoreLog)

\* C5 (as claimed): in a UI that answers every click within its wait (and that
\* never drops a chip from the tree, with no step throwing), after the
\* orchestrator returns the side panel is open iff it was at snapshot time and
\* an editor view is open iff one was, showing the same title.
C5_UiLeftAsFound ==
  (pc = "done" /\ uiResponsive /\ ~chipMissed /\ throws = 0
      /\ loopExit \in {"normal", "no_titles"}) =>
     /\ sidebarOpen = state.sidebarWasOpen
     /\ monacoOpen = state.hadMonacoOpen
     /\ monacoOpen => editor = state.currentCanvasTitle

\* C6: the fragments are in the order of enumeration of their titles, except
\* that the fragment of the artifact already open at the start comes first.
OrderedResults(rs) ==
  LET k == IF state.hadMonacoOpen THEN 1 ELSE 0
  IN /\ Len(rs) >= k
     /\ k = 1 => rs[1] = Fragment(state.currentCanvasTitle[1], state.currentCanvasTitle[1])
     /\ \A i, j \in (k + 1)..Len(rs) :
          i < j => /\ rs[i].title \in Range(titles)
                   /\ rs[j].title \in Range(titles)
                   /\ Pos(titles, rs[i].title) < Pos(titles, rs[j].title)

C6_EnumerationOrder ==
  /\ (uiState # <<>> /\ pc # "step1") => OrderedResults(results)
  /\ OrchReturned => OrderedResults(returned[1])

C6_Witness ==
  pc = "done" /\ OrchReturned /\ Len(returned[1]) = 3 /\ returned[1][1].title = "t2"

\* C7: no title is emitted twice (a title read as the open artifact is not
\* emitted again from the list), and every title read has its own entry.
C7_TitlesEmittedOnce ==
  /\ \A i, j \in 1..Len(results) : i # j => results[i].title # results[j].title
  /\ processedTitles \subseteq TitleSet(results)
  /\ OrchReturned => Cardinality(TitleSet(returned[1])) = Len(returned[1])

C7_Witness ==
  /\ pc = "done" /\ Len(chips) > Len(titles) /\ Len(titles) = 2
  /\ state.hadMonacoOpen /\ state.currentCanvasTitle[1] \in Range(titles)
  /\ Len(returned[1]) = 2

\* C9: restoreUiState is entered before the caller's 60 s timer fires (the
\* timer is armed at clock 0), whatever the timing of the UI's answers.
C9_RestoreBeforeOuterTimeout ==
  /\ restoreAt # <<>> => restoreAt[1] < OuterTimeoutCanvas
  /\ restoreCalls = 0 => now < OuterTimeoutCanvas

C9_Witness ==
  restoreAt # <<>> /\ restoreAt[1] > MAX_TOTAL_MS /\ loopExit = "budget"

(* ------------------------------------------------------------------ *)
(* Properties of the popup (SpecPopup)                                 *)
(* ------------------------------------------------------------------ *)
\* the injected run of click c is between its snapshot and its return
Driving(c) == page[c] = "waiting"

\* C8 (as claimed): the page UI is never driven by two extraction runs at
\* once: no run has taken its snapshot while another one is suspended in a
\* wait.
C8_OneRunAtATime ==
  \A c, d \in Clicks : c # d => ~(Driving(c) /\ Driving(d))

\* C10: when the timer fires before the injected call resolves, the handler
\* reports the timeout as an error and never writes to the clipboard for that
\* click, even if the call resolves afterwards; when the call resolves first
\* the timer is cleared and produces no error.
C10_TimeoutRace ==
  \A c \in Clicks :
    /\ timer[c] = "fired" =>
         /\ hpc[c] = "timed_out"
         /\ said[c] = Status("timeout", TRUE)
         /\ clipboard[c] = 0
         /\ timerErrors[c] = 1
    /\ hpc[c] \in {"writing", "copied", "failed"} /\ page[c] = "resolved" =>
         /\ timer[c] = "cleared"
         /\ timerErrors[c] = 0
         /\ said[c] # Status("timeout", TRUE)
    /\ clipboard[c] > 0 => timer[c] = "cleared"

C10_Witness ==
  \E c \in Clicks : timer[c] = "fired" /\ page[c] = "resolved" /\ result[c] = "markdown"

\* C11 (as claimed): once the caller's timer has fired for a click, the
\* injected run of that click makes no further click on the page UI.
C11_TimeoutStopsPageRun ==
  [][\A c \in Clicks : timer[c] = "fired" => pageClicks'[c] = pageClicks[c]]_vars

(* ------------------------------------------------------------------ *)
(* Properties of extractMarkdownFromPage (Spec)                        *)
(* ------------------------------------------------------------------ *)
IsMarkdown(r) == DOMAIN r = {"markdown"}
IsError(r) == DOMAIN r = {"error"}
Warned == Line("warning") \in Range(document[1])
NonBlank(l) == l.kind # "blank"
UiAutomationRan == uiState # <<>>

\* C13: every call resolves with a non-empty Markdown string or with an
\* object that carries an error message and nothing else; it never rejects
\* and has no other result shape.
C13_ResultShape ==
  /\ pc = "done" <=> pageResult # <<>>
  /\ pageResult # <<>> =>
       LET r == pageResult[1]
       IN \/ IsMarkdown(r) /\ r.markdown # <<>> /\ document = <<r.markdown>>
          \/ IsError(r) /\ r.error # "" /\ document = <<>>

C13_Witness ==
  pc = "done" /\ throws = 1 /\ IsError(pageResult[1]) /\ hostOk /\ turnsFound

\* C14: on a page of another host, or without any turn node, the call
\* returns an error descriptor and no UI automation takes place (no snapshot,
\* no wait, no click, no restore), even when artifacts were requested.
C14_ErrorsBeforeAutomation ==
  (~hostOk \/ ~turnsFound) =>
     /\ pc \in {"entry", "done"}
     /\ ~UiAutomationRan /\ restoreCalls = 0 /\ restoreLog = <<>>
     /\ now = 0 /\ pendingOpen = <<>> /\ uiResponsive /\ ~chipMissed
     /\ pc = "done" => IsError(pageResult[1])

C14_Witness ==
  pc = "done" /\ ~hostOk /\ turnsFound /\ includeCanvasArg /\ Len(chips) >= 2
     /\ IsError(pageResult[1])

\* C15: the warning block is in the document exactly when artifacts were
\* requested, the orchestrator returned no artifact and the root holds an
\* artifact reference.
C15_WarningExactlyWhen ==
  (pc = "done" /\ IsMarkdown(pageResult[1])) =>
     (Warned <=> /\ includeCanvasArg
                 /\ returned # <<>> /\ Len(returned[1]) = 0
                 /\ hasCanvasRef)

C15_Witness ==
  pc = "done" /\ IsMarkdown(pageResult[1]) /\ Warned /\ Len(chips) >= 1

C12_WaitForNeverThrows ==
  /\ wpc # "rejected"
  /\ (wLast = "throw" /\ wpc # "poll") => wpc \in {"sleep", "test", "returned"}
  /\ wpc = "returned" <=> wRet # <<>>
  /\ wRet # <<>> =>
       \/ wRet[1] \in TruthyValues /\ wLast = wRet[1]
       \/ wRet[1] = "null" /\ wNow - wStart >= wTimeout

C12_Witness ==
  wpc = "returned" /\ wSwallowed >= 1 /\ wRet[1] \in TruthyValues

(* ------------------------------------------------------------------ *)
(* Properties of the text helpers (SpecText)                           *)
(* ------------------------------------------------------------------ *)
\* C17: both whitespace-normalization passes are idempotent: a second pass
\* of cleanupMarkdown, or of cleanupMarkdownInline, changes nothing.
C17_CleanupIdempotent ==
  tpc \in {"md2", "in2"} => pass2 = pass1

C17_Witness ==
  tpc = "md2" /\ pass2 = pass1 /\ Len(text) = MaxTextLen /\ pass1[1] # text
     /\ Len(pass1[1]) >= 3

\* f occurs in s as a substring
Occurs(f, s) == \E i \in 1..(Len(s) - Len(f) + 1) : SubSeq(s, i, i + Len(f) - 1) = f
\* the length of the longest run of backticks of s
BacktickRun(s) ==
  CHOOSE k \in 0..Len(s) :
    /\ k > 0 => Occurs(Repeat("bt", k), s)
    /\ ~Occurs(Repeat("bt", k + 1), s)

\* C18: with k the longest run of backticks of the code text, the block fence
\* has max(3, k + 1) backticks and the inline delimiter k + 1, and neither
\* occurs inside the text.
C18_FenceLongerThanRuns ==
  tpc = "fenced" =>
     LET k == BacktickRun(text)
     IN /\ fences[1].block = Repeat("bt", Max(3, k + 1))
        /\ fences[1].inline = Repeat("bt", k + 1)
        /\ ~Occurs(fences[1].block, text)
        /\ ~Occurs(fences[1].inline, text)

C18_Witness ==
  tpc = "fenced" /\ BacktickRun(text) = 3 /\ Len(fences[1].block) = 4
     /\ Len(fences[1].inline) = 4

(* ------------------------------------------------------------------ *)
(* Properties of collectConversationNodes (SpecNodes)                  *)
(* ------------------------------------------------------------------ *)
\* the elements the selectors of the call select
PrimaryMatches == {e \in Elements : kindOf[e] \in {"user", "model", "blank"}}
TurnMatches == IF PrimaryMatches # {} THEN PrimaryMatches
               ELSE {e \in Elements : kindOf[e] = "turn"}
Nested(a, b) == a # b /\ Contains(a, b)
Outermost(a) == a \in TurnMatches /\ ~\E z \in TurnMatches : Nested(z, a)

C20_DocumentOrder ==
  /\ npc \in {"collected", "rendered"} =>
       /\ \A i, j \in 1..Len(nodes) : i < j => nodes[i] < nodes[j]
       /\ Range(nodes) \subseteq TurnMatches
  /\ npc = "rendered" =>
       /\ \A i, j \in 1..Len(sections) : i < j => sections[i].node < sections[j].node
       /\ \A i \in 1..Len(sections) :
            sections[i].speaker = (IF kindOf[sections[i].node] = "user" THEN "User"
                                   ELSE "Gemini")
       /\ (\A a, b \in TurnMatches : ~Nested(a, b)) =>
            {sections[i].node : i \in 1..Len(sections)}
               = {e \in TurnMatches : kindOf[e] # "blank"}

C20_Witness ==
  /\ npc = "rendered" /\ Len(sections) = 3 /\ Len(kindOf) = 4
  /\ \A a, b \in TurnMatches : ~Nested(a, b)
  /\ sections[1].speaker = "User" /\ sections[2].speaker = "Gemini"
  /\ sections[3].speaker = "User"

(* ------------------------------------------------------------------ *)
(* Properties of the list renderer (SpecList)                          *)
(* ------------------------------------------------------------------ *)
\* the lines of a text
RECURSIVE LineLen(_)
LineLen(s) == IF s # <<>> /\ s[1] # "nl" THEN 1 + LineLen(Tail(s)) ELSE 0

RECURSIVE SplitLines(_)
SplitLines(s) ==
  LET n == LineLen(s)
  IN IF n = Len(s) THEN <<s>>
     ELSE <<SubSeq(s, 1, n)>> \o SplitLines(Drop(s, n + 1))

IsNonBlankLine(l) == l # <<>>
ItemLines == SelectSeq(SplitLines(rendered), IsNonBlankLine)
ItemsInOrder == SelectSeq([i \in 1..Len(parentOf) |-> i], IsItem)

\* the nesting depth of an item: the number of lists around it
RECURSIVE ListDepthOf(_)
ListDepthOf(e) ==
  IF e = 0 THEN 0
  ELSE (IF IsList(e) THEN 1 ELSE 0) + ListDepthOf(parentOf[e])

\* the position of an item among the items of its own list
ItemNumber(e) ==
  1 + Cardinality({i \in 1..(e - 1) : parentOf[i] = parentOf[e] /\ IsItem(i)})

ItemMarker(e) ==
  IF kindOf[parentOf[e]] = "ol" THEN <<DigitChar(ItemNumber(e)), ".">> ELSE <<"-">>

StartsWith(l, prefix) ==
  Len(l) >= Len(prefix) /\ SubSeq(l, 1, Len(prefix)) = prefix

ListsRendered == lpc \in {"rendered", "cleaned"}

SectionText(node) ==
  <<"##", "sp", IF kindOf[node] = "user" THEN "User" ELSE "Gemini", "nl">>
    \o TurnMarkdown(node) \o <<"nl", "nl", "---", "nl", "nl">>

RECURSIVE SectionTexts(_)
SectionTexts(ns) ==
  IF ns = <<>> THEN <<>> ELSE SectionText(ns[1]) \o SectionTexts(Tail(ns))

HasBody(node) == TurnMarkdown(node) # <<>>

\* the header, a blank line and the sections of the given turns, the white
\* space at the end of the returned string removed
DocumentOf(ns) == trimEnd(<<"#", "sp", "title", "nl", "nl">> \o SectionTexts(ns))

HelloHiThere ==
  /\ Len(nodes) = 2
  /\ kindOf[nodes[1]] = "user" /\ kindOf[nodes[2]] = "model"

\* C22, as stated: the document is the header followed by one section for
\* each collected turn, in order.
C22_SectionPerCollectedTurn ==
  npc = "joined" => turnDoc = DocumentOf(nodes)

\* C22, amended: the document is the header followed by one section ("## User"
\* or "## Gemini", the body, a blank line, "---", a blank line) for each
\* collected turn whose rendered body is not empty, in order, the white space
\* at its end removed; one user turn "Hello" and one assistant turn "Hi there"
\* give exactly the stated string.
C22_DocumentShape ==
  npc = "joined" =>
    /\ turnDoc = DocumentOf(SelectSeq(nodes, HasBody))
    /\ HelloHiThere =>
         turnDoc = <<"#", "sp", "title", "nl", "nl",
                     "##", "sp", "User", "nl", "Hello", "nl", "nl", "---", "nl", "nl",
                     "##", "sp", "Gemini", "nl", "Hi", "sp", "there", "nl", "nl", "---">>

C22_Witness ==
  /\ npc = "joined" /\ HelloHiThere
  /\ turnDoc[Len(turnDoc)] = "---"

(* ------------------------------------------------------------------ *)
(* Properties of the per-title loop (Spec, SpecSlow)                   *)
(* ------------------------------------------------------------------ *)
\* an artifact entry has just been clicked (line 321 returned true)
JustClicked == pc = "loop_codetab"

\* C23: an artifact entry is clicked only while the time elapsed since the
\* start of the orchestration is within the 45 s budget.
C23_ClickWithinBudget ==
  JustClicked => Elapsed <= MAX_TOTAL_MS

\* C24: every render poll is started with a timeout that is strictly positive
\* and equal to min(8 s, 45 s - elapsed time), and lasts no longer than that
\* timeout allows; when no budget remains the loop ends without polling.
C24_PollTimeout ==
  [][/\ pc' = "loop_wait" =>
          /\ pollTimeout' > 0
          /\ pollTimeout' = Min(ContentPollCap, MAX_TOTAL_MS - (now' - totalStart'))
     /\ (pc = "loop_wait" /\ pc' # pc) =>
          now' - now <= WaitGiveUp(pollTimeout, ContentPollInterval)
     /\ (pc = "loop_poll" /\ pc' # pc /\ MAX_TOTAL_MS - Elapsed <= 0) =>
          /\ pc' = "return" /\ loopExit' = "budget"
          /\ now' = now /\ results' = results /\ editor' = editor]_vars

\* a poll about to start with less than the cap left of the budget
C24_Witness ==
  /\ pc = "loop_wait"
  /\ pollTimeout < ContentPollCap
  /\ pollTimeout = MAX_TOTAL_MS - Elapsed

\* a step in which the render poll of the clicked title ended without content
PollFailedStep == pc = "loop_wait" /\ pc' # pc /\ results' = results
LoopAborts == pc' = "return"
LoopSkipsTitle == pc' = "efv" /\ efvRet' = "loop_after"

\* C25: when the render poll of a clicked title fails, the loop aborts if and
\* only if no artifact has been read earlier in this run, the artifact that was
\* already open at the start included; otherwise the title is skipped.
C25_AbortIffNothingRead ==
  [][PollFailedStep =>
       /\ LoopAborts <=> results = <<>>
       /\ ~LoopAborts => LoopSkipsTitle]_vars

\* the titles before the current one for which a click was attempted: all but
\* the one skipped at line 319 because step 1 had read it
AttemptedEarlier ==
  {j \in 1..(idx - 1) : titles[j] \notin Range(uiState[1].currentCanvasTitle)}

\* a step in which the click on the current title failed (323-325)
ClickFailedStep ==
  /\ pc = "loop_ready" /\ efvResult /\ ~AlreadyProcessed(titles[idx])
  /\ pc' = "loop_top"

\* C26: a per-artifact failure (failed click or failed render poll) on a
\* title that is not the first one attempted never aborts the loop: the title
\* is skipped.
C26_LaterFailureOnlySkips ==
  [][((PollFailedStep \/ ClickFailedStep) /\ AttemptedEarlier # {}) => ~LoopAborts]_vars

\* a step in which the loop sees that ensureFileListVisible returned false
\* (313, 373)
CheckFailedStep ==
  /\ pc \in {"loop_ready", "loop_after"} /\ ~efvResult
  /\ pc' # pc /\ throws' = throws

LoopPcs == {"loop_top", "loop_ready", "loop_codetab", "loop_poll", "loop_wait", "loop_after"}
LoopClickStep == pc = "loop_ready" /\ pc' = "loop_codetab"
\* restoreUiState re-opens the editor view that was open at the start (221)
RestoreClickStep == pc = "r_reopen" /\ editor' # editor

\* C27, as stated: once a list-visibility check of the loop has failed, no
\* artifact entry is clicked and no fragment is appended in the rest of the
\* run, and the step after the loop is the restore.
C27_NoClickAfterListLost ==
  [][/\ CheckFailedStep => (pc' = "return" /\ loopExit' = "list_lost")
     /\ loopExit = "list_lost" =>
          /\ results' = results
          /\ ~LoopClickStep /\ ~RestoreClickStep
          /\ pc = "return" => pc' = "r_start"]_vars

\* C27, amended: once a list-visibility check of the loop has failed, the loop
\* is left: it clicks no further entry and appends no further fragment, and
\* the step after it is the restore; the only entry opened afterwards is the
\* one restoreUiState re-opens, the editor view that was open at the start.
C27_LoopEndsOnListLost ==
  [][/\ CheckFailedStep => (pc' = "return" /\ loopExit' = "list_lost")
     /\ loopExit = "list_lost" =>
          /\ results' = results
          /\ ~LoopClickStep /\ pc' \notin LoopPcs
          /\ pc = "return" => pc' = "r_start"
          /\ (editor' # editor /\ editor' # <<>>) =>
               (pc = "r_reopen" /\ editor' = state.currentCanvasTitle)]_vars

\* the list was lost after a fragment had been appended, and the run is over
C27_Witness ==
  /\ loopExit = "list_lost" /\ pc = "done"
  /\ results # <<>> /\ idx < Len(titles)

\* C28: every fragment in the results carries the content of the artifact
\* whose title it is tagged with.
C28_FragmentMatchesTitle ==
  \A i \in 1..Len(results) : results[i].title = results[i].code

(* ------------------------------------------------------------------ *)
(* Properties of ensureFileListVisible and ensureSidebarOpen (Spec)    *)
(* ------------------------------------------------------------------ *)
EfvReturns == pc \in {"efv", "efv_back", "efv_files", "efv_end"} /\ pc' = efvRet

\* C29: ensureFileListVisible does nothing when the list is visible; else it
\* tries the back action, then the files tab, then close-and-reopen, going on
\* to the next only when the list is not visible after the bounded wait of the
\* one before; it returns true only when the list is visible at that moment.
C29_RecoveryOrder ==
  [][/\ (pc = "efv" /\ pc' # pc /\ isFileListVisible) =>
          /\ pc' = efvRet /\ efvResult'
          /\ UNCHANGED <<sidebarOpen, editor, now>>
     /\ (pc' = "efv_back" /\ pc' # pc) => (pc = "efv" /\ ~isFileListVisible)
     /\ (pc' = "efv_files" /\ pc' # pc) =>
          /\ pc = "efv_back" /\ ~isFileListVisible'
          /\ now' - now <= WaitGiveUp(ListWaitTimeout, DefaultInterval)
     /\ (pc' = "efv_close" /\ pc' # pc) =>
          /\ pc = "efv_files" /\ ~isFileListVisible'
          /\ now' - now <= WaitGiveUp(ListWaitTimeout, DefaultInterval)
     /\ (pc' = "efv_end" /\ pc' # pc) => (pc = "eso" /\ esoRet = "efv_end")
     /\ (pc' = "eso" /\ esoRet' = "efv_end" /\ pc' # pc) => pc = "efv_close"
     /\ (EfvReturns /\ efvResult') => isFileListVisible']_vars

\* the list is visible again after the back action and the files tab did not
\* bring it back and the panel was closed and re-opened
C29_Witness ==
  /\ pc = "efv_end" /\ isFileListVisible
  /\ now >= 2 * WaitGiveUp(ListWaitTimeout, DefaultInterval)

\* a step that is one call of ensureSidebarOpen
EsoStep == pc = "eso" /\ pc' # pc
PanelIndicator == closeBtnPresent \/ findSidePanel

\* what both readings of C30 say about the toggle: no click when a panel-open
\* indicator is present, an open panel stays open, one bounded wait at most
ToggleOnlyWhenClosed ==
  /\ PanelIndicator => UNCHANGED <<sidebarOpen, editor, now>>
  /\ sidebarOpen => sidebarOpen'
  /\ now' - now <= WaitGiveUp(SidebarOpenTimeout, DefaultInterval)

RECURSIVE FindFrom(_, _, _)
FindFrom(sub, s, k) ==
  IF k + Len(sub) - 1 > Len(s) THEN 0
  ELSE IF SubSeq(s, k, k + Len(sub) - 1) = sub THEN k
  ELSE FindFrom(sub, s, k + 1)

\* the text between the line of the opening fence and the closing fence
FencedBody(doc, fence) ==
  LET open == FindFrom(fence \o <<"nl">>, doc, 1)
      from == open + Len(fence) + 1
      close == FindFrom(<<"nl">> \o fence, doc, from - 1)
  IN IF open = 0 \/ close = 0 THEN <<"missing">>
     ELSE SubSeq(doc, from, close - 1)

\* for each line of a text, whether it is blank
IsBlankLine(l) == \A i \in 1..Len(l) : l[i] = "sp"
BlankProfile(s) == [i \in 1..Len(SplitLines(s)) |-> IsBlankLine(SplitLines(s)[i])]

\* C31: the code block of the final document has the blank lines of its
\* source, the trailing ones removed: the same lines are blank, in whatever
\* element the block stands.
C31_BlankLinesKept ==
  (cpc = "done" /\ trim(normalizeCode(codeText)) # <<>>) =>
    BlankProfile(FencedBody(codeDoc, makeFence(normalizeCode(codeText))))
      = BlankProfile(normalizeCode(codeText))

\* C40: the fence that wraps the code of a Canvas section does not occur
\* inside the code.
C40_CanvasFenceNotInCode ==
  cpc = "canvas" => ~Occurs(CanvasFence, codeText)

(* ------------------------------------------------------------------ *)
(* Properties of the links (SpecLink)                                  *)
(* ------------------------------------------------------------------ *)
\* the target has the javascript scheme
IsJavascriptUrl(u) == Len(u) >= 2 /\ u[1] = "javascript" /\ u[2] = ":"

\* C32: no emitted link has a javascript: target: an anchor whose href
\* resolves to the javascript scheme, whatever the letter case of the scheme
\* or the white space before it, is rendered as its bare text.
C32_NoJavascriptLink ==
  apc = "rendered" =>
    /\ linkOut[1].kind = "link" => ~IsJavascriptUrl(linkOut[1].url)
    /\ IsJavascriptUrl(toAbsoluteUrl(href)) => linkOut[1].kind = "text"

(* ------------------------------------------------------------------ *)
(* Properties of the math elements (SpecMath)                          *)
(* ------------------------------------------------------------------ *)
\* C33: a math node with a recoverable source is rendered as math: as a $$
\* block holding its source when it is block-level (a div carrying a math
\* class and a source attribute included), as $source$ when it is inline,
\* never as its ordinary text content.
C33_MathRendered ==
  (mpc = "rendered" /\ isMathElement(mathEl) /\ extractLatex(mathEl) # <<>>) =>
    mathOut = IF isBlockMath(mathEl)
              THEN blockMath(extractLatex(mathEl))
              ELSE inlineMath(extractLatex(mathEl))

(* ------------------------------------------------------------------ *)
(* Properties of htmlToMarkdown (SpecDom)                              *)
(* ------------------------------------------------------------------ *)
\* C34: rendering a content node never changes the live tree: the node
\* passed to htmlToMarkdown has the same children and attributes after every
\* step of the call as before it; the removals are made in the clone.
C34_LiveTreeUnchanged == [][liveDom' = liveDom]_vars

\* a call has returned for an element holding a button or an svg, which the
\* clone has lost and the element still has
C34_Witness ==
  /\ dpc = "returned"
  /\ cloneDom.present # liveDom.present
  /\ \E i \in liveDom.present : liveDom.kindOf[i] \in RemoveSelectors
  /\ \E i \in liveDom.present : liveDom.kindOf[i] = "text" /\ i \notin cloneDom.present

(* ------------------------------------------------------------------ *)
(* Properties of listCreatedFileTitles (SpecTitles)                    *)
(* ------------------------------------------------------------------ *)
\* the position of the first title element whose trimmed text is t
FirstSeen(t) == CHOOSE i \in 1..Len(titleEls) :
                  trim(titleEls[i]) = t /\ \A j \in 1..(i - 1) : trim(titleEls[j]) # t

\* C35: listCreatedFileTitles returns the non-empty trimmed titles of the
\* container without duplicates and in first-encounter order, and the empty
\* sequence when there is no container or the container is not visible.
C35_TitlesDeduplicated ==
  fpc = "returned" =>
    IF sectionContainer = "visible"
    THEN /\ Range(fileTitles) = {trim(titleEls[i]) : i \in 1..Len(titleEls)} \ {<<>>}
         /\ \A i, j \in 1..Len(fileTitles) : i # j => fileTitles[i] # fileTitles[j]
         /\ \A i, j \in 1..Len(fileTitles) :
              i < j => FirstSeen(fileTitles[i]) < FirstSeen(fileTitles[j])
    ELSE fileTitles = <<>>

\* a visible container with a repeated title after a different one, an
\* empty title and a title written with blanks around it
C35_Witness ==
  /\ fpc = "returned" /\ sectionContainer = "visible"
  /\ Len(fileTitles) = 2 /\ Len(titleEls) = 3
  /\ \E i \in 1..3 : titleEls[i] # trim(titleEls[i])
  /\ trim(titleEls[3]) = trim(titleEls[1])

(* ------------------------------------------------------------------ *)
(* Properties of readMonacoDomText (SpecMonaco)                        *)
(* ------------------------------------------------------------------ *)
\* C36: the rendered-view read that scrolls through the whole range removes
\* the lines repeated by the overlap of the reads: each line of the editor
\* appears in the returned text once and in order (the blank lines at the two
\* ends of the text aside, which the final trim removes).
C36_EachLineOnce ==
  (rpc = "returned" /\ monacoRet[1].path = "scroll") =>
    monacoRet[1].lines = trimLines(editorLines)

(* ------------------------------------------------------------------ *)
(* Properties of the window scroll (SpecScroll)                        *)
(* ------------------------------------------------------------------ *)
\* C37: after restoreUiState has completed without an exception the window
\* scroll offset equals the offset captured in the snapshot, whatever the
\* later restoration steps (re-opening the editor by title) did.
C37_WindowScrollRestored ==
  spc = "returned" => windowY = windowScroll[1]

(* ------------------------------------------------------------------ *)
(* Properties of the overlay in restoreUiState (Spec)                  *)
(* ------------------------------------------------------------------ *)
\* restoreUiState has called closeImmersivePanel
CloseAttempted == "closeImmersive" \in Range(restoreLog)

C39_Terminates ==
  <>(/\ pc = "done"
     /\ OrchOff => wpc = "returned")

\* a run has ended after a loop over two titles in which a wait ran out, and
\* after its restore
C39_Witness ==
  /\ pc = "done" /\ Len(titles) = 2 /\ idx = 2 /\ restoreCalls = 1
  /\ ~uiResponsive /\ pageResult # <<>>

====
